---- MODULE Spec2Model ----
(***************************************************************************)
(* The meeting pipeline of gnv-city-meetings: the state store (SQLite      *)
(* table `meetings`), the four BullMQ queues, the workflow orchestrator,   *)
(* discovery, the four phase workers and the queue-manager CLI.            *)
(*                                                                         *)
(* The orchestrator modelled is src/workflow/orchestrator.js, the module   *)
(* every worker imports.  Its calls updateMeetingState(meetingId, state,   *)
(* data) have the shape of the meetings API client, which PATCHes the API  *)
(* server, which runs the UPDATE of db/init.js: updateMeetingState below   *)
(* is that UPDATE.                                                         *)
(***************************************************************************)
EXTENDS Integers, Sequences, FiniteSets, TLC

VARIABLES
    calendar,      \* meetings with video the calendar API returns
    runs,          \* per discovery run, where runDiscovery stands and its local variables
    store,         \* table meetings: meeting id -> row
    artifacts,     \* per meeting, the storage kinds present at their canonical path
    published,     \* meetings whose video the external host has accepted
    wait,          \* per queue, the list of waiting job ids (a job id is <queue>-<meeting>)
    active,        \* per queue, the job ids in state active
    delayed,       \* per queue, the job ids in state delayed
    completed,     \* per queue, the retained completed job ids
    failed,        \* per queue, the retained failed job ids
    attemptsMade,  \* per job, the attempts that have failed so far
    backoff,       \* per job, the delay in ms of its latest backoff
    pc,            \* per job, where its processor function stands
    caught,        \* per job, the message of the error its processor caught
    killedAt,      \* per job, where its processor stood when its worker was last killed
    ops,           \* operator commands issued so far
    proc,          \* per queue, its worker process: the shutdown handler's position and the connection
    files,         \* the files on the file server's disk: a set of [path, content]
    tmpUploads,    \* the number of files in /tmp/uploads
    reply,         \* the latest storage request or call and its outcome
    reqs,          \* storage requests and calls so far
    call,          \* the latest call of a pure function: its argument and result
    tempDir        \* per meeting, whether the scratch directory of its latest diarize run exists

vars == <<calendar, runs, store, artifacts, published, wait, active, delayed,
          completed, failed, attemptsMade, backoff, pc, caught, killedAt, ops, proc,
          tempDir, files, tmpUploads, reply, reqs, call>>

fileVars == <<files, tmpUploads, reply, reqs, call>>

queueVars == <<wait, active, delayed, completed, failed, attemptsMade, backoff>>

-----------------------------------------------------------------------------
(* Bounds of the model *)

MaxOps == 2        \* operator commands (CLI restart/add/retry/backfill) in one run

MeetingIds == {"m1", "m2", "m3", "m4"}

-----------------------------------------------------------------------------
(* Program constants *)

Attempts == 3      \* defaultJobOptions.attempts

BackoffDelayMs == 2000     \* defaultJobOptions.backoff.delay

\* backoff type 'exponential': the delay before the attempt that follows the
\* attemptsMade-th failed one.
BackoffDelay(made) == BackoffDelayMs * 2 ^ (made - 1)

Queues == {"download", "extract", "upload", "diarize"}

Phases == {"DISCOVERED", "DOWNLOADED", "EXTRACTED", "UPLOADED", "DIARIZED", "FAILED"}

\* A step table in which FAILED leads back to DISCOVERED and to a new download.
WORKFLOW_STEPS_FailedRestarts ==
    [DISCOVERED |-> [nextState |-> "DOWNLOADED", queue |-> "download"],
     DOWNLOADED |-> [nextState |-> "EXTRACTED",  queue |-> "extract"],
     EXTRACTED  |-> [nextState |-> "UPLOADED",   queue |-> "upload"],
     UPLOADED   |-> [nextState |-> "DIARIZED",   queue |-> "diarize"],
     DIARIZED   |-> [nextState |-> "null",       queue |-> "null"],
     FAILED     |-> [nextState |-> "DISCOVERED", queue |-> "download"]]

WORKFLOW_STEPS ==
    [DISCOVERED |-> [nextState |-> "DOWNLOADED", queue |-> "download"],
     DOWNLOADED |-> [nextState |-> "EXTRACTED",  queue |-> "extract"],
     EXTRACTED  |-> [nextState |-> "UPLOADED",   queue |-> "upload"],
     UPLOADED   |-> [nextState |-> "DIARIZED",   queue |-> "diarize"],
     DIARIZED   |-> [nextState |-> "null",       queue |-> "null"],
     FAILED     |-> [nextState |-> "null",       queue |-> "null"]]

\* The state each worker passes to advanceWorkflow and handleWorkflowFailure.
WorkerState ==
    [download |-> "DISCOVERED", extract |-> "DOWNLOADED",
     upload   |-> "EXTRACTED",  diarize |-> "UPLOADED"]

\* Workers that all take up to four jobs at a time.
ConcurrencyFour == [download |-> 4, extract |-> 4, upload |-> 4, diarize |-> 4]

\* createWorker(..., { concurrency })
Concurrency == [download |-> 2, extract |-> 3, upload |-> 1, diarize |-> 1]

StorageTypes ==
    {"raw_video", "raw_audio", "raw_agenda", "raw_transcript", "derived_chapters",
     "derived_audio", "derived_diarized", "derived_metadata"}

\* Error messages a processor can catch.
NotFound     == "Meeting not found"
NotUploaded  == "Meeting not in UPLOADED state"
AudioMissing == "ENOENT derived_audio"
ToolFailed   == "Command failed"

-----------------------------------------------------------------------------
(* State store *)

NullRow ==
    [present |-> FALSE, state |-> "null", video_path |-> "null", agenda_data |-> "null",
     chapters_text |-> "null", youtube_url |-> "null", error |-> "null"]

\* INSERT OR REPLACE, under which a second insert puts a fresh row in the
\* place of the one that exists.
insertOrReplaceMeeting(st, m) ==
    [st EXCEPT ![m] = [present |-> TRUE, state |-> "DISCOVERED", video_path |-> "null",
                       agenda_data |-> "null", chapters_text |-> "null",
                       youtube_url |-> "null", error |-> "null"]]

\* INSERT OR IGNORE INTO meetings (id, title, date, meeting_url, has_video):
\* column state takes its default 'DISCOVERED'.
insertMeeting(st, m) ==
    IF st[m].present THEN st
    ELSE [st EXCEPT ![m] = [present |-> TRUE, state |-> "DISCOVERED", video_path |-> "null",
                            agenda_data |-> "null", chapters_text |-> "null",
                            youtube_url |-> "null", error |-> "null"]]

\* UPDATE meetings SET state = ?, [video_path = ?,] [agenda_data = ?,] [chapters_text = ?,]
\* [youtube_url = ?,] [error = ?]
\* WHERE id = ?.  A key of additionalData the function does not name
\* (failed_at_state) is dropped; an absent row is left absent.
updateMeetingState(st, m, state, additionalData) ==
    IF ~st[m].present THEN st
    ELSE [st EXCEPT ![m] =
            [present     |-> TRUE,
             state       |-> state,
             video_path  |-> IF "video_path" \in DOMAIN additionalData
                             THEN additionalData.video_path ELSE @.video_path,
             agenda_data |-> IF "agenda_data" \in DOMAIN additionalData
                             THEN additionalData.agenda_data ELSE @.agenda_data,
             chapters_text |-> IF "chapters_text" \in DOMAIN additionalData
                               THEN additionalData.chapters_text ELSE @.chapters_text,
             youtube_url |-> IF "youtube_url" \in DOMAIN additionalData
                             THEN additionalData.youtube_url ELSE @.youtube_url,
             error       |-> IF "error" \in DOMAIN additionalData
                             THEN additionalData.error ELSE @.error]]

\* A lookup that finds no row, whatever the table holds.
getMeetingNone(m) == NullRow

\* SELECT * FROM meetings WHERE id = ?
getMeeting(m) == store[m]

\* What reading a property of a fetched row yields.
ReadField(row, f) == IF f \in DOMAIN row THEN row[f] ELSE "undefined"

-----------------------------------------------------------------------------
(* Job queue (BullMQ) *)

RECURSIVE Count(_, _)
Count(s, x) ==
    IF s = <<>> THEN 0 ELSE (IF Head(s) = x THEN 1 ELSE 0) + Count(Tail(s), x)

InWait(q, m) == Count(wait[q], m) > 0

\* queue.getJob(jobId): the job's key exists, whatever state the job is in.
JobExists(q, m) ==
    InWait(q, m) \/ m \in active[q] \/ m \in delayed[q] \/ m \in completed[q] \/ m \in failed[q]

\* A queue that appends whatever it is given, whether or not the job id exists.
QueueAddAlways(w, q, m) == [w EXCEPT ![q] = Append(@, m)]

\* queue.add('process', { meetingId }, { jobId }): a job id that exists is left as it is.
QueueAdd(w, q, m) ==
    IF m \in active[q] \/ m \in delayed[q] \/ m \in completed[q] \/ m \in failed[q]
       \/ Count(w[q], m) > 0
    THEN w
    ELSE [w EXCEPT ![q] = Append(@, m)]

Running(q) == {m \in MeetingIds : pc[q][m] # "idle"}

-----------------------------------------------------------------------------
(* Workflow orchestrator *)

NoData == [k \in {} |-> "null"]

\* The queue advanceWorkflow adds the job to: step.queue of WORKFLOW_STEPS[currentState].
advanceQueue(currentState) == WORKFLOW_STEPS[currentState].queue

\* An advanceWorkflow that enqueues before it has written the new state.
advanceWorkflowUpdateLate(st, m, currentState, additionalData) == st

\* advanceWorkflow, first half: if (step.nextState) await updateMeetingState(...)
advanceWorkflowUpdate(st, m, currentState, additionalData) ==
    IF WORKFLOW_STEPS[currentState].nextState # "null"
    THEN updateMeetingState(st, m, WORKFLOW_STEPS[currentState].nextState, additionalData)
    ELSE st

\* advanceWorkflow, second half: if (step.queue) await queue.add(..., { jobId })
advanceWorkflowEnqueue(w, m, currentState) ==
    IF advanceQueue(currentState) # "null"
    THEN QueueAdd(w, advanceQueue(currentState), m)
    ELSE w

\* handleWorkflowFailure(meetingId, currentState, error)
handleWorkflowFailure(st, m, currentState, message) ==
    updateMeetingState(st, m, "FAILED", [error |-> message, failed_at_state |-> currentState])

\* restartWorkflow(meetingId, fromState): the state update
restartWorkflowUpdate(st, m, fromState) == updateMeetingState(st, m, fromState, NoData)

\* restartWorkflow(meetingId, fromState): the enqueue
restartWorkflowEnqueue(w, m, fromState) ==
    IF WORKFLOW_STEPS[fromState].queue # "null"
    THEN QueueAdd(w, WORKFLOW_STEPS[fromState].queue, m)
    ELSE w

-----------------------------------------------------------------------------
(* Phase workers: what a processor does between fetching the meeting and *)
(* calling advanceWorkflow.  ok and audioOk are the outcomes of the       *)
(* external tools (yt-dlp, the agenda fetch, the host upload, WhisperX;   *)
(* ffmpeg).                                                               *)

Ok(arts, pub) == [error |-> "null", arts |-> arts, pub |-> pub]
Thrown(message, arts, pub) == [error |-> message, arts |-> arts, pub |-> pub]

\* A download that reports success without having written the video file.
downloadVideoNoFile(m, ok) ==
    IF ~getMeeting(m).present THEN Thrown(NotFound, artifacts[m], m \in published)
    ELSE IF ok THEN Ok(artifacts[m], m \in published)
    ELSE Thrown(ToolFailed, artifacts[m], m \in published)

\* downloadVideo(meetingId)
downloadVideo(m, ok) ==
    IF ~getMeeting(m).present THEN Thrown(NotFound, artifacts[m], m \in published)
    ELSE IF ok THEN Ok(artifacts[m] \cup {"raw_video"}, m \in published)
    ELSE Thrown(ToolFailed, artifacts[m], m \in published)

\* An extract processor in which a failed audio extraction fails the attempt.
extractMeetingDataAudioRequired(m, ok, audioOk) ==
    IF ~getMeeting(m).present THEN Thrown(NotFound, artifacts[m], m \in published)
    ELSE IF ~ok THEN Thrown(ToolFailed, artifacts[m], m \in published)
    ELSE IF audioOk /\ "raw_video" \in artifacts[m]
         THEN Ok(artifacts[m] \cup {"derived_chapters", "derived_metadata", "derived_audio"},
                 m \in published)
    ELSE Thrown(ToolFailed, artifacts[m] \cup {"derived_chapters", "derived_metadata"},
                m \in published)

\* extractMeetingData(meetingId), then extractAudio inside its own try/catch
extractMeetingData(m, ok, audioOk) ==
    IF ~getMeeting(m).present THEN Thrown(NotFound, artifacts[m], m \in published)
    ELSE IF ~ok THEN Thrown(ToolFailed, artifacts[m], m \in published)
    ELSE Ok(artifacts[m] \cup {"derived_chapters", "derived_metadata"}
              \cup (IF audioOk /\ "raw_video" \in artifacts[m] THEN {"derived_audio"} ELSE {}),
            m \in published)

\* uploadMeetingToYouTube(meetingId): a chapters file that cannot be read is
\* replaced by an empty description; the host client reads the raw video.
uploadMeetingToYouTube(m, ok) ==
    IF ~getMeeting(m).present THEN Thrown(NotFound, artifacts[m], m \in published)
    ELSE IF ok /\ "raw_video" \in artifacts[m] THEN Ok(artifacts[m], TRUE)
    ELSE Thrown(ToolFailed, artifacts[m], m \in published)

\* processDiarizeJob, second try block up to writeFile(DERIVED_DIARIZED)
diarize(m, ok) ==
    IF ~getMeeting(m).present THEN Thrown(NotFound, artifacts[m], m \in published)
    ELSE IF getMeeting(m).state # "UPLOADED" THEN Thrown(NotUploaded, artifacts[m], m \in published)
    ELSE IF "derived_audio" \notin artifacts[m]
         THEN Thrown(AudioMissing, artifacts[m], m \in published)
    ELSE IF ok THEN Ok(artifacts[m] \cup {"derived_diarized"}, m \in published)
    ELSE Thrown(ToolFailed, artifacts[m], m \in published)

Produce(q, m, ok, audioOk) ==
    CASE q = "download" -> downloadVideo(m, ok)
      [] q = "extract"  -> extractMeetingData(m, ok, audioOk)
      [] q = "upload"   -> uploadMeetingToYouTube(m, ok)
      [] OTHER          -> diarize(m, ok)

\* The additionalData each worker passes to advanceWorkflow.
AdditionalData(q) ==
    CASE q = "download" -> [video_path |-> "set"]
      [] q = "extract"  -> [agenda_data |-> "set", chapters_text |-> "set"]
      [] q = "upload"   -> [youtube_url |-> "set", youtube_video_id |-> "set"]
      [] OTHER          -> NoData

-----------------------------------------------------------------------------
(* Discovery runs *)

\* runDiscovery is started by the timer's discover.js and by backfill.js.
Runs == {"timer", "backfill"}

\* A run that has not been started.  meetings is the part of the fetched list
\* the loop has not visited, meeting the loop variable; newMeetings and
\* enqueued hold the meetings that newMeetingsCount and enqueuedCount count;
\* afterAnother tells that some run had completed when this one started,
\* duringAnother that another run was in progress then.
IdleRun ==
    [pc |-> "idle", meetings |-> {}, meeting |-> "null", newMeetings |-> {}, enqueued |-> {},
     afterAnother |-> FALSE, duringAnother |-> FALSE]

InProgress(r) == runs[r].pc \in {"loop", "insert", "add"}

-----------------------------------------------------------------------------
(* Artifact paths and the file server's checks *)

\* A meeting id is a sequence of characters.  The characters tried: a letter,
\* a hyphen (allowed by the file server, replaced in paths), a dot (allowed
\* by neither) and a question mark (which ends the path of a URL).
Chars == {"a", "-", ".", "?"}

\* Characters of [a-zA-Z0-9]: a lower-case letter, an upper-case letter, a digit.
Alnum == {"a", "B", "7"}

MaxIdLen == 1

IdArgs == UNION {[1..n -> Chars] : n \in 0..MaxIdLen}

\* The part of a path below a directory: directory names, then the file's
\* name as stem (characters) and ending.
NoPath == [dirs |-> <<>>, stem |-> <<>>, ext |-> ""]

\* STORAGE_ROOT, as directory names from the file system's root.
STORAGE_ROOT == <<"srv", "downloads">>

\* Per storage type, the directories below STORAGE_ROOT and the file ending.
TypeDirs ==
    [raw_video        |-> <<"raw", "videos">>,
     raw_audio        |-> <<"raw", "audio">>,
     raw_agenda       |-> <<"raw", "agendas">>,
     raw_transcript   |-> <<"raw", "transcripts">>,
     derived_chapters |-> <<"derived", "chapters">>,
     derived_audio    |-> <<"derived", "audio">>,
     derived_diarized |-> <<"derived", "diarized">>,
     derived_metadata |-> <<"derived", "metadata">>]

TypeEnding ==
    [raw_video        |-> ".mp4",
     raw_audio        |-> ".mp3",
     raw_agenda       |-> "_agenda.html",
     raw_transcript   |-> "_transcript.txt",
     derived_chapters |-> "_chapters.txt",
     derived_audio    |-> ".m4a",
     derived_diarized |-> "_diarized.json",
     derived_metadata |-> "_metadata.json"]

\* meetingId.replace(/[^a-zA-Z0-9]/g, '_')
safeId(meetingId) ==
    [i \in 1..Len(meetingId) |-> IF meetingId[i] \in Alnum THEN meetingId[i] ELSE "_"]

\* pathFor(type, meetingId) for a type of StorageTypes; any other type throws.
pathFor(type, meetingId) ==
    [dirs |-> STORAGE_ROOT \o TypeDirs[type],
     stem |-> safeId(meetingId),
     ext  |-> TypeEnding[type]]

\* path.relative(STORAGE_ROOT, localPath) of a path below STORAGE_ROOT
relative(path) ==
    [path EXCEPT !.dirs = SubSeq(@, Len(STORAGE_ROOT) + 1, Len(@))]

\* path.resolve / path.join on directory names: ".." leaves a directory (the
\* file system's root has no parent), "." stays.
RECURSIVE resolve(_, _)
resolve(acc, segs) ==
    IF segs = <<>> THEN acc
    ELSE IF Head(segs) = ".." THEN
             resolve(IF acc = <<>> THEN acc ELSE SubSeq(acc, 1, Len(acc) - 1), Tail(segs))
    ELSE IF Head(segs) = "." THEN resolve(acc, Tail(segs))
    ELSE resolve(Append(acc, Head(segs)), Tail(segs))

IsPrefix(s, t) == Len(s) <= Len(t) /\ SubSeq(t, 1, Len(s)) = s

isValidStorageType(type) == type \in StorageTypes

MaxMeetingIdLength == 100

isValidMeetingId(meetingId) ==
    /\ Len(meetingId) > 0
    /\ Len(meetingId) <= MaxMeetingIdLength
    /\ \A i \in 1..Len(meetingId) : meetingId[i] \in Alnum \cup {"_", "-"}

\* isPathSafe(filePath): the resolved path is STORAGE_ROOT or below it.
isPathSafe(dirs) == IsPrefix(STORAGE_ROOT, resolve(<<>>, dirs))

\* A file outside STORAGE_ROOT that no request may reach.
Secret == [path |-> [dirs |-> <<"srv">>, stem |-> <<"a">>, ext |-> ".mp4"], content |-> "secret"]

Contents == {"x", "y"}

fileExists(disk, path) == \E f \in disk : f.path = path

contentOf(disk, path) == (CHOOSE f \in disk : f.path = path).content

\* fs.rename / fs.copyFile / fs.writeFile onto path
putFile(disk, path, content) ==
    {f \in disk : f.path # path} \cup {[path |-> path, content |-> content]}

\* What is kept of a request: the request, the status answered, the path
\* written, the path read and the content read.
NoReply ==
    [op |-> "none", mode |-> "none", type |-> "none", id |-> <<>>, hasFile |-> FALSE,
     sent |-> "none", status |-> "none", wrote |-> NoPath, read |-> NoPath,
     content |-> "none", safe |-> TRUE]

NoCall == [fn |-> "none", arg |-> <<>>, result |-> <<>>]

-----------------------------------------------------------------------------
(* Initial state: empty store, empty queues, no files. *)

\* cal: the meetings on the calendar; up: the queues whose worker process is
\* running.
InitState(cal, up) ==
    /\ calendar = cal
    /\ runs = [r \in Runs |-> IdleRun]
    /\ store = [m \in MeetingIds |-> NullRow]
    /\ artifacts = [m \in MeetingIds |-> {}]
    /\ published = {}
    /\ wait = [q \in Queues |-> <<>>]
    /\ active = [q \in Queues |-> {}]
    /\ delayed = [q \in Queues |-> {}]
    /\ completed = [q \in Queues |-> {}]
    /\ failed = [q \in Queues |-> {}]
    /\ attemptsMade = [q \in Queues |-> [m \in MeetingIds |-> 0]]
    /\ backoff = [q \in Queues |-> [m \in MeetingIds |-> 0]]
    /\ pc = [q \in Queues |-> [m \in MeetingIds |-> "idle"]]
    /\ caught = [q \in Queues |-> [m \in MeetingIds |-> "null"]]
    /\ killedAt = [q \in Queues |-> [m \in MeetingIds |-> "null"]]
    /\ ops = 0
    /\ proc = [q \in Queues |->
                 [pc       |-> IF q \in up THEN "running" ELSE "exited",
                  conn     |-> IF q \in up THEN "open" ELSE "closed",
                  inFlight |-> {}]]
    /\ tempDir = [m \in MeetingIds |-> "absent"]
    /\ files = {Secret}
    /\ tmpUploads = 0
    /\ reply = NoReply
    /\ reqs = 0
    /\ call = NoCall

\* Every worker process is running.
InitWith(cal) == InitState(cal, Queues)

Init == InitWith({"m1"})

InitTwo == InitWith({"m1", "m2"})

InitThree == InitWith({"m1", "m2", "m3"})

-----------------------------------------------------------------------------
(* Discovery *)

\* runDiscovery, one meeting of the loop: a meeting the store does not hold is
\* inserted and its download job added.
Discover(m) ==
    /\ m \in calendar
    /\ ~getMeeting(m).present
    /\ store' = insertMeeting(store, m)
    /\ wait' = QueueAdd(wait, "download", m)
    /\ UNCHANGED <<fileVars, proc, tempDir, calendar, runs, artifacts, published, active,
                   delayed, completed, failed, attemptsMade, backoff, pc, caught,
                   killedAt, ops>>

-----------------------------------------------------------------------------
(* A worker processing one job *)

\* The worker takes the oldest waiting job while it has a free slot.
StartJob(q, m) ==
    /\ wait[q] # <<>>
    /\ Head(wait[q]) = m
    /\ pc[q][m] = "idle"
    /\ Cardinality(Running(q)) < Concurrency[q]
    /\ wait' = [wait EXCEPT ![q] = Tail(@)]
    /\ active' = [active EXCEPT ![q] = @ \cup {m}]
    /\ pc' = [pc EXCEPT ![q][m] = "run"]
    /\ killedAt' = [killedAt EXCEPT ![q][m] = "null"]
    /\ UNCHANGED <<fileVars, proc, tempDir, calendar, runs, store, artifacts, published,
                   delayed, completed, failed, attemptsMade, backoff, caught, ops>>

\* The processor's try block up to the call of advanceWorkflow.
Work(q, m, ok, audioOk) ==
    /\ pc[q][m] = "run"
    /\ artifacts' = [artifacts EXCEPT ![m] = Produce(q, m, ok, audioOk).arts]
    /\ published' = IF Produce(q, m, ok, audioOk).pub THEN published \cup {m} ELSE published
    /\ pc' = [pc EXCEPT ![q][m] =
                IF Produce(q, m, ok, audioOk).error = "null" THEN "produced" ELSE "caught"]
    /\ caught' = [caught EXCEPT ![q][m] = Produce(q, m, ok, audioOk).error]
    /\ UNCHANGED <<fileVars, proc, tempDir, calendar, runs, store, queueVars, killedAt,
                   ops>>

\* advanceWorkflow(meetingId, WorkerState, additionalData): the state update.
AdvanceUpdate(q, m) ==
    /\ pc[q][m] = "produced"
    /\ store' = advanceWorkflowUpdate(store, m, WorkerState[q], AdditionalData(q))
    /\ pc' = [pc EXCEPT ![q][m] = "updated"]
    /\ UNCHANGED <<fileVars, proc, tempDir, calendar, runs, artifacts, published,
                   queueVars, caught, killedAt, ops>>

\* advanceWorkflow: the enqueue that follows the state update.
AdvanceEnqueue(q, m) ==
    /\ pc[q][m] = "updated"
    /\ wait' = advanceWorkflowEnqueue(wait, m, WorkerState[q])
    /\ pc' = [pc EXCEPT ![q][m] = "advanced"]
    /\ UNCHANGED <<fileVars, proc, tempDir, calendar, runs, store, artifacts, published,
                   active, delayed, completed, failed, attemptsMade, backoff, caught,
                   killedAt, ops>>

\* The processor returns: the job is moved to completed.
CompleteJob(q, m) ==
    /\ pc[q][m] = "advanced"
    /\ active' = [active EXCEPT ![q] = @ \ {m}]
    /\ completed' = [completed EXCEPT ![q] = @ \cup {m}]
    /\ pc' = [pc EXCEPT ![q][m] = "idle"]
    /\ UNCHANGED <<fileVars, proc, tempDir, calendar, runs, store, artifacts, published,
                   wait, delayed, failed, attemptsMade, backoff, caught, killedAt, ops>>

\* catch (error) { await handleWorkflowFailure(meetingId, WorkerState, error); ...
MarkFailed(q, m) ==
    /\ pc[q][m] = "caught"
    /\ store' = handleWorkflowFailure(store, m, WorkerState[q], caught[q][m])
    /\ pc' = [pc EXCEPT ![q][m] = "rethrow"]
    /\ UNCHANGED <<fileVars, proc, tempDir, calendar, runs, artifacts, published,
                   queueVars, caught, killedAt, ops>>

\* A queue that delays a failed job for another attempt however often it failed.
FailJobAgain(q, m) ==
    /\ pc[q][m] = "rethrow"
    /\ attemptsMade' = [attemptsMade EXCEPT ![q][m] = @ + 1]
    /\ backoff' = [backoff EXCEPT ![q][m] = BackoffDelay(attemptsMade[q][m] + 1)]
    /\ active' = [active EXCEPT ![q] = @ \ {m}]
    /\ delayed' = [delayed EXCEPT ![q] = @ \cup {m}]
    /\ pc' = [pc EXCEPT ![q][m] = "idle"]
    /\ caught' = [caught EXCEPT ![q][m] = "null"]
    /\ UNCHANGED <<fileVars, proc, tempDir, calendar, runs, store, artifacts, published,
                   wait, completed, failed, killedAt, ops>>

\* ... throw error; }: the attempt has failed; the queue delays the job for
\* another attempt or, after Attempts attempts, moves it to failed.
FailJob(q, m) ==
    /\ pc[q][m] = "rethrow"
    /\ attemptsMade' = [attemptsMade EXCEPT ![q][m] = @ + 1]
    /\ backoff' = [backoff EXCEPT ![q][m] =
                     IF attemptsMade[q][m] + 1 < Attempts
                     THEN BackoffDelay(attemptsMade[q][m] + 1) ELSE @]
    /\ active' = [active EXCEPT ![q] = @ \ {m}]
    /\ delayed' = [delayed EXCEPT ![q] =
                     IF attemptsMade[q][m] + 1 < Attempts THEN @ \cup {m} ELSE @]
    /\ failed' = [failed EXCEPT ![q] =
                     IF attemptsMade[q][m] + 1 < Attempts THEN @ ELSE @ \cup {m}]
    /\ pc' = [pc EXCEPT ![q][m] = "idle"]
    /\ caught' = [caught EXCEPT ![q][m] = "null"]
    /\ UNCHANGED <<fileVars, proc, tempDir, calendar, runs, store, artifacts, published,
                   wait, completed, killedAt, ops>>

\* The backoff delay of a delayed job has passed.
PromoteDelayed(q, m) ==
    /\ m \in delayed[q]
    /\ delayed' = [delayed EXCEPT ![q] = @ \ {m}]
    /\ wait' = [wait EXCEPT ![q] = Append(@, m)]
    /\ UNCHANGED <<fileVars, proc, tempDir, calendar, runs, store, artifacts, published,
                   active, completed, failed, attemptsMade, backoff, pc, caught,
                   killedAt, ops>>

-----------------------------------------------------------------------------
(* Worker crash and redelivery *)

\* The worker process is killed while the processor of the job runs: the job
\* keeps its state active until its lock expires.
Crash(q, m) ==
    /\ pc[q][m] # "idle"
    /\ pc' = [pc EXCEPT ![q][m] = "idle"]
    /\ caught' = [caught EXCEPT ![q][m] = "null"]
    /\ killedAt' = [killedAt EXCEPT ![q][m] = pc[q][m]]
    /\ UNCHANGED <<fileVars, proc, tempDir, calendar, runs, store, artifacts, published,
                   queueVars, ops>>

\* The queue finds the active job stalled and moves it back to wait.
Redeliver(q, m) ==
    /\ m \in active[q]
    /\ pc[q][m] = "idle"
    /\ active' = [active EXCEPT ![q] = @ \ {m}]
    /\ wait' = [wait EXCEPT ![q] = Append(@, m)]
    /\ UNCHANGED <<fileVars, proc, tempDir, calendar, runs, store, artifacts, published,
                   delayed, completed, failed, attemptsMade, backoff, pc, caught,
                   killedAt, ops>>

-----------------------------------------------------------------------------
(* Operator commands: queue-manager CLI and backfill *)

\* queue-manager restart <meetingId> <fromState>
restartMeeting(m, fromState) ==
    /\ ops < MaxOps
    /\ getMeeting(m).present
    /\ store' = restartWorkflowUpdate(store, m, fromState)
    /\ wait' = restartWorkflowEnqueue(wait, m, fromState)
    /\ ops' = ops + 1
    /\ UNCHANGED <<fileVars, proc, tempDir, calendar, runs, artifacts, published, active,
                   delayed, completed, failed, attemptsMade, backoff, pc, caught,
                   killedAt>>

\* queue-manager add <queue> <meetingId>: the command returns without adding
\* when the job id exists or the meeting does not.
addJob(q, m) ==
    /\ ops < MaxOps
    /\ ~JobExists(q, m)
    /\ getMeeting(m).present
    /\ wait' = QueueAdd(wait, q, m)
    /\ ops' = ops + 1
    /\ UNCHANGED <<fileVars, proc, tempDir, calendar, runs, store, artifacts, published,
                   active, delayed, completed, failed, attemptsMade, backoff, pc, caught,
                   killedAt>>

\* queue-manager retry <queue> <jobId>: job.retry() of a failed job
retryJob(q, m) ==
    /\ ops < MaxOps
    /\ m \in failed[q]
    /\ failed' = [failed EXCEPT ![q] = @ \ {m}]
    /\ wait' = [wait EXCEPT ![q] = Append(@, m)]
    /\ ops' = ops + 1
    /\ UNCHANGED <<fileVars, proc, tempDir, calendar, runs, store, artifacts, published,
                   active, delayed, completed, attemptsMade, backoff, pc, caught,
                   killedAt>>

\* backfill, one meeting of the enqueue loop over the DISCOVERED meetings
Backfill(m) ==
    /\ ops < MaxOps
    /\ getMeeting(m).present
    /\ getMeeting(m).state = "DISCOVERED"
    /\ wait' = QueueAdd(wait, "download", m)
    /\ ops' = ops + 1
    /\ UNCHANGED <<fileVars, proc, tempDir, calendar, runs, store, artifacts, published,
                   active, delayed, completed, failed, attemptsMade, backoff, pc, caught,
                   killedAt>>

-----------------------------------------------------------------------------
(* Specifications *)

\* Discovery and the four workers when no tool fails and no process dies.
NextClean ==
    \/ \E m \in MeetingIds : Discover(m)
    \/ \E q \in Queues, m \in MeetingIds : StartJob(q, m)
    \/ \E q \in Queues, m \in MeetingIds : Work(q, m, TRUE, TRUE)
    \/ \E q \in Queues, m \in MeetingIds : AdvanceUpdate(q, m)
    \/ \E q \in Queues, m \in MeetingIds : AdvanceEnqueue(q, m)
    \/ \E q \in Queues, m \in MeetingIds : CompleteJob(q, m)

Fairness ==
    \A q \in Queues, m \in MeetingIds :
        /\ WF_vars(StartJob(q, m))
        /\ WF_vars(Work(q, m, TRUE, TRUE))
        /\ WF_vars(AdvanceUpdate(q, m))
        /\ WF_vars(AdvanceEnqueue(q, m))
        /\ WF_vars(CompleteJob(q, m))

SpecClean == InitThree /\ [][NextClean]_vars /\ Fairness

\* Discovery, the four workers, failing tools and the queue's automatic retries.
NextAuto ==
    \/ \E m \in MeetingIds : Discover(m)
    \/ \E q \in Queues, m \in MeetingIds : StartJob(q, m)
    \/ \E q \in Queues, m \in MeetingIds, ok \in BOOLEAN, audioOk \in BOOLEAN :
           Work(q, m, ok, audioOk)
    \/ \E q \in Queues, m \in MeetingIds : AdvanceUpdate(q, m)
    \/ \E q \in Queues, m \in MeetingIds : AdvanceEnqueue(q, m)
    \/ \E q \in Queues, m \in MeetingIds : CompleteJob(q, m)
    \/ \E q \in Queues, m \in MeetingIds : MarkFailed(q, m)
    \/ \E q \in Queues, m \in MeetingIds : FailJob(q, m)
    \/ \E q \in Queues, m \in MeetingIds : PromoteDelayed(q, m)

SpecAuto == InitTwo /\ [][NextAuto]_vars

\* Discovery and the four workers when no tool fails, but workers can be killed
\* and their jobs are redelivered.
NextCrash ==
    \/ NextClean
    \/ \E q \in Queues, m \in MeetingIds : Crash(q, m)
    \/ \E q \in Queues, m \in MeetingIds : Redeliver(q, m)

SpecCrash == InitTwo /\ [][NextCrash]_vars

\* Everything, the operator included.
Next ==
    \/ NextAuto
    \/ \E m \in MeetingIds, s \in Phases : restartMeeting(m, s)
    \/ \E q \in Queues, m \in MeetingIds : addJob(q, m)
    \/ \E q \in Queues, m \in MeetingIds : retryJob(q, m)
    \/ \E m \in MeetingIds : Backfill(m)

Spec == Init /\ [][Next]_vars

-----------------------------------------------------------------------------
(* Properties *)

NonTerminal == {"DISCOVERED", "DOWNLOADED", "EXTRACTED", "UPLOADED"}

Rank(p) ==
    CASE p = "null"       -> 0
      [] p = "DISCOVERED" -> 1
      [] p = "DOWNLOADED" -> 2
      [] p = "EXTRACTED"  -> 3
      [] p = "UPLOADED"   -> 4
      [] p = "DIARIZED"   -> 5
      [] OTHER            -> 6

\* The step writes column state of meeting m: the row is inserted, or a
\* processor's advanceWorkflow or handleWorkflowFailure runs its UPDATE, or the
\* row changes otherwise.
WritesPhase(m) ==
    \/ store'[m] # store[m]
    \/ \E q \in Queues : pc[q][m] = "produced" /\ pc'[q][m] = "updated"
    \/ \E q \in Queues : pc[q][m] = "caught" /\ pc'[q][m] = "rethrow"

\* The queue whose worker drives the phase that follows the worker's own.
SuccessorQueue(q) == WORKFLOW_STEPS[WORKFLOW_STEPS[WorkerState[q]].nextState].queue

\* Jobs <q>-<m> that are waiting, active or delayed.
Live(q, m) ==
    Count(wait[q], m) + (IF m \in active[q] THEN 1 ELSE 0) + (IF m \in delayed[q] THEN 1 ELSE 0)

\* The artifacts the worker of queue q is responsible for are in place.
ArtifactsOf(q, m) ==
    CASE q = "download" -> "raw_video" \in artifacts[m]
      [] q = "extract"  -> {"derived_chapters", "derived_metadata"} \subseteq artifacts[m]
      [] q = "upload"   -> m \in published
      [] OTHER          -> "derived_diarized" \in artifacts[m]

\* C1: when advance enqueues, the new phase is already stored and exactly one
\* job for the meeting is appended to the queue that drives the new phase
\* (nothing at all when the new phase is DIARIZED).
C1_AdvanceEnqueuesSuccessorJob ==
    [][\A q \in Queues, m \in MeetingIds :
          (pc[q][m] = "updated" /\ pc'[q][m] = "advanced") =>
              /\ store[m].state = WORKFLOW_STEPS[WorkerState[q]].nextState
              /\ wait' = IF SuccessorQueue(q) = "null" THEN wait
                         ELSE [wait EXCEPT ![SuccessorQueue(q)] = Append(@, m)]]_vars

\* C2: with discovery, the workers and the automatic retries only, every write
\* of a meeting's phase is the insertion as DISCOVERED, a move from a
\* non-terminal phase to its successor, or a move from a non-terminal phase to
\* FAILED; nothing is written over FAILED or DIARIZED.
C2_WritesFollowTheTable ==
    [][\A m \in MeetingIds :
          WritesPhase(m) =>
              \/ getMeeting(m).state = "null" /\ store'[m].state = "DISCOVERED"
              \/ /\ getMeeting(m).state \in NonTerminal
                 /\ store'[m].state \in {WORKFLOW_STEPS[getMeeting(m).state].nextState, "FAILED"}]_vars

\* C3: when no tool fails and no process dies, a discovered meeting is
\* eventually DIARIZED.
C3_DiscoveredLeadsToDiarized ==
    \A m \in MeetingIds : (store[m].state = "DISCOVERED") ~> (store[m].state = "DIARIZED")

\* C4: for every queue and meeting at most one job <queue>-<meeting> is waiting,
\* active or delayed, and adding a job whose id exists leaves the queue as it is.
C4_AtMostOneLiveJob ==
    \A q \in Queues, m \in MeetingIds :
        /\ Live(q, m) <= 1
        /\ JobExists(q, m) => QueueAdd(wait, q, m) = wait

\* C4, its case: advanceWorkflow has added download-<m> while that very job is
\* active, and the queue holds no second copy of it.
C4_Witness ==
    \E m \in MeetingIds :
        /\ pc["download"][m] = "advanced"
        /\ m \in active["download"]
        /\ ~InWait("download", m)

\* C5: a processor that finds the meeting in another phase than its own fails
\* the attempt and leaves files and published videos as they are.
C5_WrongPhaseFailsTheJob ==
    [][\A q \in Queues, m \in MeetingIds :
          (pc[q][m] = "run" /\ pc'[q][m] # "run" /\ getMeeting(m).state # WorkerState[q]) =>
              /\ pc'[q][m] = "caught"
              /\ artifacts' = artifacts
              /\ published' = published]_vars

\* C6: with workers killed and jobs redelivered, every write of a meeting's
\* phase moves it forward: no transition is written a second time and none
\* leads back.
C6_WritesMoveForward ==
    [][\A m \in MeetingIds :
          WritesPhase(m) => Rank(getMeeting(m).state) < Rank(store'[m].state)]_vars

C8_FailureIsReadable ==
    [][\A q \in Queues, m \in MeetingIds :
          (pc[q][m] = "caught" /\ pc'[q][m] = "rethrow" /\ getMeeting(m).present) =>
              /\ store'[m].state = "FAILED"
              /\ store'[m].error = caught[q][m]
              /\ ReadField(store'[m], "failed_at_state") = WorkerState[q]]_vars

\* C9: an attempt that fails because a tool failed hands the error to the queue
\* and leaves the meeting's row as it was.
C9_TransientLeavesRow ==
    [][\A q \in Queues, m \in MeetingIds :
          (pc[q][m] = "caught" /\ caught[q][m] = ToolFailed /\ pc'[q][m] = "rethrow") =>
              store'[m] = store[m]]_vars

C11_RestartLeavesFreshJob ==
    [][\A m \in MeetingIds, s \in NonTerminal :
          restartMeeting(m, s) =>
              /\ store'[m].state = s
              /\ Count(wait'[WORKFLOW_STEPS[s].queue], m) = 1
              /\ m \notin active'[WORKFLOW_STEPS[s].queue]
              /\ m \notin delayed'[WORKFLOW_STEPS[s].queue]
              /\ m \notin completed'[WORKFLOW_STEPS[s].queue]
              /\ m \notin failed'[WORKFLOW_STEPS[s].queue]]_vars

-----------------------------------------------------------------------------
(* The orchestrator called directly, as a test of it would call it *)

\* advanceWorkflow(meetingId, currentState): the whole call.
advanceWorkflow(m, currentState) ==
    /\ ops < MaxOps
    /\ store' = advanceWorkflowUpdate(store, m, currentState, NoData)
    /\ wait' = advanceWorkflowEnqueue(wait, m, currentState)
    /\ ops' = ops + 1
    /\ UNCHANGED <<fileVars, proc, tempDir, calendar, runs, artifacts, published, active,
                   delayed, completed, failed, attemptsMade, backoff, pc, caught,
                   killedAt>>

\* Discovery followed by direct calls of advanceWorkflow; no worker runs.
NextAdvance ==
    \/ \E m \in MeetingIds : Discover(m)
    \/ \E m \in MeetingIds, s \in Phases : advanceWorkflow(m, s)

SpecAdvance == InitThree /\ [][NextAdvance]_vars

\* All jobs <q>-<m>, whatever state they are in.
Jobs(q, m) ==
    Live(q, m) + (IF m \in completed[q] THEN 1 ELSE 0) + (IF m \in failed[q] THEN 1 ELSE 0)

\* C12: a second advance for the same meeting and phase leaves the stored phase
\* the first call wrote and exactly one job of the meeting on the queue that
\* drives that phase.
C12_SecondAdvanceSameResult ==
    [][\A m \in MeetingIds, s \in {"DISCOVERED", "DOWNLOADED", "EXTRACTED"} :
          (advanceWorkflow(m, s) /\ getMeeting(m).state = WORKFLOW_STEPS[s].nextState) =>
              /\ store'[m].state = WORKFLOW_STEPS[s].nextState
              /\ Jobs(WORKFLOW_STEPS[WORKFLOW_STEPS[s].nextState].queue, m)' = 1]_vars

\* C13: advance called from DIARIZED or FAILED changes neither the store nor
\* any queue.
C13_TerminalAdvanceChangesNothing ==
    [][\A m \in MeetingIds, s \in {"DIARIZED", "FAILED"} :
          advanceWorkflow(m, s) => (store' = store /\ queueVars' = queueVars)]_vars

\* C13, its case: one call of advanceWorkflow has been made, and the store and
\* the queues hold what discovery alone leaves, which no call from a
\* non-terminal phase would leave.
C13_Witness ==
    /\ ops = 1
    /\ \E m \in MeetingIds : getMeeting(m).present
    /\ \A m \in MeetingIds : getMeeting(m).state \in {"null", "DISCOVERED"}
    /\ \A q \in Queues, m \in MeetingIds :
           JobExists(q, m) <=> (q = "download" /\ getMeeting(m).present)

-----------------------------------------------------------------------------
(* runDiscovery, statement by statement *)

\* const meetings = await fetchMeetingsWithVideo(startDate, endDate)
StartDiscovery(r) ==
    /\ runs[r].pc \in {"idle", "done", "stopped"}
    /\ runs' = [runs EXCEPT ![r] =
                  [pc |-> "loop", meetings |-> calendar, meeting |-> "null",
                   newMeetings |-> {}, enqueued |-> {},
                   afterAnother |-> \E r2 \in Runs : runs[r2].pc = "done" \/ runs[r2].afterAnother,
                   duringAnother |-> \E r2 \in Runs \ {r} : InProgress(r2)]]
    /\ UNCHANGED <<fileVars, proc, tempDir, calendar, store, artifacts, published,
                   queueVars, pc, caught, killedAt, ops>>

\* for (const meeting of meetings) { const existing = await getMeeting(db, meeting.id);
\* if (!existing) ... else existingMeetingsCount++
DiscoveryGet(r, m) ==
    /\ runs[r].pc = "loop"
    /\ m \in runs[r].meetings
    /\ runs' = [runs EXCEPT ![r].meetings = @ \ {m},
                            ![r].meeting = IF getMeeting(m).present THEN "null" ELSE m,
                            ![r].pc = IF getMeeting(m).present THEN "loop" ELSE "insert"]
    /\ UNCHANGED <<fileVars, proc, tempDir, calendar, store, artifacts, published,
                   queueVars, pc, caught, killedAt, ops>>

\* await insertMeeting(db, meeting); newMeetingsCount++
DiscoveryInsert(r) ==
    /\ runs[r].pc = "insert"
    /\ store' = insertMeeting(store, runs[r].meeting)
    /\ runs' = [runs EXCEPT ![r].newMeetings = @ \cup {runs[r].meeting}, ![r].pc = "add"]
    /\ UNCHANGED <<fileVars, proc, tempDir, calendar, artifacts, published, queueVars,
                   pc, caught, killedAt, ops>>

\* await queue.add('process', { meetingId }, { jobId: `download-${meeting.id}` }); enqueuedCount++
DiscoveryAdd(r) ==
    /\ runs[r].pc = "add"
    /\ wait' = QueueAdd(wait, "download", runs[r].meeting)
    /\ runs' = [runs EXCEPT ![r].enqueued = @ \cup {runs[r].meeting},
                            ![r].meeting = "null", ![r].pc = "loop"]
    /\ UNCHANGED <<fileVars, proc, tempDir, calendar, store, artifacts, published,
                   active, delayed, completed, failed, attemptsMade, backoff, pc, caught,
                   killedAt, ops>>

\* The loop has visited every meeting: 'Discovery complete'.
DiscoveryEnd(r) ==
    /\ runs[r].pc = "loop"
    /\ runs[r].meetings = {}
    /\ runs' = [runs EXCEPT ![r].pc = "done"]
    /\ UNCHANGED <<fileVars, proc, tempDir, calendar, store, artifacts, published,
                   queueVars, pc, caught, killedAt, ops>>

\* Discovery runs, started at any time, next to the four workers, failing
\* tools and the queue's automatic retries.
NextDiscovery ==
    \/ \E r \in Runs : StartDiscovery(r)
    \/ \E r \in Runs, m \in MeetingIds : DiscoveryGet(r, m)
    \/ \E r \in Runs : DiscoveryInsert(r)
    \/ \E r \in Runs : DiscoveryAdd(r)
    \/ \E r \in Runs : DiscoveryEnd(r)
    \/ \E q \in Queues, m \in MeetingIds : StartJob(q, m)
    \/ \E q \in Queues, m \in MeetingIds, ok \in BOOLEAN, audioOk \in BOOLEAN :
           Work(q, m, ok, audioOk)
    \/ \E q \in Queues, m \in MeetingIds : AdvanceUpdate(q, m)
    \/ \E q \in Queues, m \in MeetingIds : AdvanceEnqueue(q, m)
    \/ \E q \in Queues, m \in MeetingIds : CompleteJob(q, m)
    \/ \E q \in Queues, m \in MeetingIds : MarkFailed(q, m)
    \/ \E q \in Queues, m \in MeetingIds : FailJob(q, m)
    \/ \E q \in Queues, m \in MeetingIds : PromoteDelayed(q, m)

SpecDiscovery == InitTwo /\ [][NextDiscovery]_vars

\* C14: a discovery run started after another run has completed, over the same
\* calendar contents, inserts no meeting and enqueues no download job, whatever
\* the workers have done to the meetings in between.
C14_SecondRunAddsNothing ==
    \A r \in Runs :
        runs[r].afterAnother => (runs[r].newMeetings = {} /\ runs[r].enqueued = {})

\* C14, its case: a run started after another had completed has itself
\* completed, with a meeting that has left phase DISCOVERED.
C14_Witness ==
    \E r \in Runs, m \in MeetingIds :
        /\ runs[r].afterAnother
        /\ runs[r].pc = "done"
        /\ getMeeting(m).state \in {"DOWNLOADED", "FAILED"}

\* C15: a meeting a discovery run inserts is stored with phase DISCOVERED, and
\* when the run completes every meeting it has counted as new has exactly one
\* job download-<meeting> on the download queue.
C15_NewMeetingHasOneDownloadJob ==
    [][\A r \in Runs :
          /\ (DiscoveryInsert(r) /\ ~getMeeting(runs[r].meeting).present) =>
                 store'[runs[r].meeting].state = "DISCOVERED"
          /\ runs'[r].pc = "done" =>
                 \A m \in runs'[r].newMeetings : Jobs("download", m)' = 1]_vars

\* C15, its case: a completed run has inserted a meeting, which is DISCOVERED
\* and whose download job waits.
C15_Witness ==
    \E r \in Runs, m \in MeetingIds :
        /\ runs[r].pc = "done"
        /\ m \in runs[r].newMeetings
        /\ getMeeting(m).state = "DISCOVERED"
        /\ Count(wait["download"], m) = 1

\* C16: at most one discovery run is in progress at any time, and a run
\* started while another was in progress inserts and enqueues nothing.
C16_OneDiscoveryAtATime ==
    /\ Cardinality({r \in Runs : InProgress(r)}) <= 1
    /\ \A r \in Runs :
           runs[r].duringAnother => (runs[r].newMeetings = {} /\ runs[r].enqueued = {})

\* C17: an upload job whose chapters file is missing fails; the missing file is
\* not passed over.
C17_MissingChaptersFailUpload ==
    [][\A m \in MeetingIds :
          (/\ pc["upload"][m] = "run"
           /\ pc'["upload"][m] # "run"
           /\ "derived_chapters" \notin artifacts[m]) =>
              pc'["upload"][m] = "caught"]_vars

C19_MissingAudioFailsFast ==
    [][\A m \in MeetingIds :
          /\ (/\ pc["diarize"][m] = "run"
              /\ pc'["diarize"][m] # "run"
              /\ getMeeting(m).state = "UPLOADED"
              /\ "derived_audio" \notin artifacts[m]) =>
                 /\ pc'["diarize"][m] = "caught"
                 /\ caught'["diarize"][m] = AudioMissing
                 /\ artifacts' = artifacts
          /\ (/\ pc["diarize"][m] = "caught"
              /\ caught["diarize"][m] = AudioMissing
              /\ pc'["diarize"][m] = "rethrow") =>
                 /\ store'[m].state = "FAILED"
                 /\ ReadField(store'[m], "failed_at_state") = "UPLOADED"]_vars

\* C20: a job is delayed after its first failed attempt for 2000 ms and after
\* its second for 4000 ms, is moved to failed by its third failed attempt, and
\* from there is neither attempted nor moved again by the queue.
C20_ThreeAttemptsThenFailed ==
    [][\A q \in Queues, m \in MeetingIds :
          /\ attemptsMade'[q][m] <= 3
          /\ m \in delayed'[q] =>
                 \/ attemptsMade'[q][m] = 1 /\ backoff'[q][m] = 2000
                 \/ attemptsMade'[q][m] = 2 /\ backoff'[q][m] = 4000
          /\ (pc[q][m] = "rethrow" /\ pc'[q][m] = "idle" /\ attemptsMade[q][m] = 2) =>
                 m \in failed'[q]
          /\ m \in failed[q] =>
                 /\ m \in failed'[q]
                 /\ pc'[q][m] = "idle"
                 /\ Live(q, m)' = 0
                 /\ attemptsMade'[q][m] = 3]_vars

\* C20, its case: a job has failed three times and rests in failed.
C20_Witness ==
    \E q \in Queues, m \in MeetingIds :
        /\ m \in failed[q]
        /\ attemptsMade[q][m] = 3
        /\ backoff[q][m] = 4000

-----------------------------------------------------------------------------
(* I/O errors of the state store *)

\* The message of the error db.run rejects with when the UPDATE cannot be
\* written.
IoError == "SQLITE_IOERR"

\* advanceWorkflow: `await updateMeetingState(...)` rejects.  The UPDATE is one
\* statement, so the row keeps its values; the rejection leaves advanceWorkflow
\* before queue.add and lands in the processor's catch.
AdvanceUpdateFails(q, m) ==
    /\ pc[q][m] = "produced"
    /\ pc' = [pc EXCEPT ![q][m] = "caught"]
    /\ caught' = [caught EXCEPT ![q][m] = IoError]
    /\ UNCHANGED <<fileVars, proc, tempDir, calendar, runs, store, artifacts, published,
                   queueVars, killedAt, ops>>

\* catch (error) { await handleWorkflowFailure(...) rejects as well: the
\* processor rejects with this second error and the row keeps its values.
MarkFailedFails(q, m) ==
    /\ pc[q][m] = "caught"
    /\ pc' = [pc EXCEPT ![q][m] = "rethrow"]
    /\ caught' = [caught EXCEPT ![q][m] = IoError]
    /\ UNCHANGED <<fileVars, proc, tempDir, calendar, runs, store, artifacts, published,
                   queueVars, killedAt, ops>>

\* Discovery, the workers, failing tools, retries, and a store whose updates
\* can fail.
NextIo ==
    \/ NextAuto
    \/ \E q \in Queues, m \in MeetingIds : AdvanceUpdateFails(q, m)
    \/ \E q \in Queues, m \in MeetingIds : MarkFailedFails(q, m)

SpecIo == InitTwo /\ [][NextIo]_vars

\* C21: when the state update inside advanceWorkflow fails with an I/O error,
\* the error reaches the processor and no job is enqueued; handling the error
\* leaves the meeting's row with the values it had (the update wrote nothing, so
\* these are entirely the old values); and the attempt ends with the job delayed
\* for a retry or moved to failed.
C21_IoErrorLeavesRowAndFailsJob ==
    [][\A q \in Queues, m \in MeetingIds :
          /\ AdvanceUpdateFails(q, m) =>
                 /\ caught'[q][m] = IoError
                 /\ wait' = wait
                 /\ store'[m] = store[m]
          /\ (pc[q][m] = "caught" /\ caught[q][m] = IoError /\ pc'[q][m] = "rethrow") =>
                 store'[m] = store[m]
          /\ (pc[q][m] = "rethrow" /\ caught[q][m] = IoError /\ pc'[q][m] = "idle") =>
                 /\ m \notin active'[q]
                 /\ m \in delayed'[q] \cup failed'[q]]_vars

-----------------------------------------------------------------------------
(* The diarize processor statement by statement, with its scratch directory *)

\* The message of the error fs.mkdir or fs.chmod rejects with.
TmpDirFailed == "EACCES"

\* const tempDir = `/tmp/diarize_${meetingId}_${Date.now()}`; first try block:
\* fs.mkdir(tempDir) then fs.chmod(tempDir).  The name is new in every run.
DiarizeMkdir(m, mkdirOk, chmodOk) ==
    /\ pc["diarize"][m] = "run"
    /\ tempDir' = [tempDir EXCEPT ![m] = IF mkdirOk THEN "present" ELSE "absent"]
    /\ pc' = [pc EXCEPT !["diarize"][m] = IF mkdirOk /\ chmodOk THEN "tmp" ELSE "tmpcaught"]
    /\ caught' = [caught EXCEPT !["diarize"][m] =
                    IF mkdirOk /\ chmodOk THEN @ ELSE TmpDirFailed]
    /\ UNCHANGED <<fileVars, proc, calendar, runs, store, artifacts, published,
                   queueVars, killedAt, ops>>

\* catch(err) of the first try block: handleWorkflowFailure, then throw err.
\* This try has no finally block.
DiarizeTmpFailed(m) ==
    /\ pc["diarize"][m] = "tmpcaught"
    /\ store' = handleWorkflowFailure(store, m, "UPLOADED", caught["diarize"][m])
    /\ pc' = [pc EXCEPT !["diarize"][m] = "rethrow"]
    /\ UNCHANGED <<fileVars, proc, tempDir, calendar, runs, artifacts, published,
                   queueVars, caught, killedAt, ops>>

\* Second try block from getMeeting up to writeFile(DERIVED_DIARIZED).
DiarizeTry(m, ok) ==
    /\ pc["diarize"][m] = "tmp"
    /\ artifacts' = [artifacts EXCEPT ![m] = diarize(m, ok).arts]
    /\ pc' = [pc EXCEPT !["diarize"][m] =
                IF diarize(m, ok).error = "null" THEN "dproduced" ELSE "dcaught"]
    /\ caught' = [caught EXCEPT !["diarize"][m] = diarize(m, ok).error]
    /\ UNCHANGED <<fileVars, proc, tempDir, calendar, runs, store, published, queueVars,
                   killedAt, ops>>

\* await advanceWorkflow(meetingId, 'UPLOADED'), the whole call.
DiarizeAdvance(m) ==
    /\ pc["diarize"][m] = "dproduced"
    /\ store' = advanceWorkflowUpdate(store, m, "UPLOADED", NoData)
    /\ wait' = advanceWorkflowEnqueue(wait, m, "UPLOADED")
    /\ pc' = [pc EXCEPT !["diarize"][m] = "dadvanced"]
    /\ UNCHANGED <<fileVars, proc, tempDir, calendar, runs, artifacts, published, active,
                   delayed, completed, failed, attemptsMade, backoff, caught, killedAt,
                   ops>>

\* catch (error) of the second try block: handleWorkflowFailure, then throw
\* error, which the finally block precedes.
DiarizeCatch(m) ==
    /\ pc["diarize"][m] = "dcaught"
    /\ store' = handleWorkflowFailure(store, m, "UPLOADED", caught["diarize"][m])
    /\ pc' = [pc EXCEPT !["diarize"][m] = "dfailed"]
    /\ UNCHANGED <<fileVars, proc, tempDir, calendar, runs, artifacts, published,
                   queueVars, caught, killedAt, ops>>

\* finally { try { await fs.rm(tempDir, {recursive, force}) } catch { warn } }:
\* a failing rm is logged and the directory stays.  The processor then returns
\* or throws.
DiarizeFinally(m, rmOk) ==
    /\ pc["diarize"][m] \in {"dadvanced", "dfailed"}
    /\ tempDir' = [tempDir EXCEPT ![m] = IF rmOk THEN "absent" ELSE @]
    /\ pc' = [pc EXCEPT !["diarize"][m] =
                IF pc["diarize"][m] = "dadvanced" THEN "advanced" ELSE "rethrow"]
    /\ UNCHANGED <<fileVars, proc, calendar, runs, store, artifacts, published,
                   queueVars, caught, killedAt, ops>>

\* Discovery, the download, extract and upload workers, the diarize worker
\* statement by statement, the queue's retries and the operator's restarts.
NextScratch ==
    \/ \E m \in MeetingIds : Discover(m)
    \/ \E q \in Queues, m \in MeetingIds : StartJob(q, m)
    \/ \E q \in Queues \ {"diarize"}, m \in MeetingIds, ok \in BOOLEAN, audioOk \in BOOLEAN :
           Work(q, m, ok, audioOk)
    \/ \E q \in Queues, m \in MeetingIds : AdvanceUpdate(q, m)
    \/ \E q \in Queues, m \in MeetingIds : AdvanceEnqueue(q, m)
    \/ \E q \in Queues, m \in MeetingIds : CompleteJob(q, m)
    \/ \E q \in Queues, m \in MeetingIds : MarkFailed(q, m)
    \/ \E q \in Queues, m \in MeetingIds : FailJob(q, m)
    \/ \E q \in Queues, m \in MeetingIds : PromoteDelayed(q, m)
    \/ \E m \in MeetingIds, s \in Phases : restartMeeting(m, s)
    \/ \E m \in MeetingIds, mkdirOk \in BOOLEAN, chmodOk \in BOOLEAN :
           DiarizeMkdir(m, mkdirOk, chmodOk)
    \/ \E m \in MeetingIds : DiarizeTmpFailed(m)
    \/ \E m \in MeetingIds, ok \in BOOLEAN : DiarizeTry(m, ok)
    \/ \E m \in MeetingIds : DiarizeAdvance(m)
    \/ \E m \in MeetingIds : DiarizeCatch(m)
    \/ \E m \in MeetingIds, rmOk \in BOOLEAN : DiarizeFinally(m, rmOk)

SpecScratch == Init /\ [][NextScratch]_vars

\* C22: whichever way a run of the diarize processor ends, the scratch
\* directory of that run does not exist when the processor returns or throws.
C22_ScratchDirGoneAtExit ==
    [][\A m \in MeetingIds :
          (pc["diarize"][m] \in {"advanced", "rethrow"} /\ pc'["diarize"][m] = "idle") =>
              tempDir[m] = "absent"]_vars

-----------------------------------------------------------------------------
(* Graceful shutdown of a worker process *)

\* process.on('SIGTERM' | 'SIGINT', async () => { ... await worker.close():
\* the worker stops fetching jobs.  inFlight records the jobs it is processing
\* at that moment.
Signal(q) ==
    /\ proc[q].pc = "running"
    /\ proc' = [proc EXCEPT ![q] = [pc |-> "close", conn |-> @.conn, inFlight |-> active[q]]]
    /\ UNCHANGED <<fileVars, tempDir, calendar, runs, store, artifacts, published,
                   queueVars, pc, caught, killedAt, ops>>

\* A close that does not wait for the jobs being processed.
WorkerClosedForce(q) ==
    /\ proc[q].pc = "close"
    /\ proc' = [proc EXCEPT ![q].pc = "quit"]
    /\ UNCHANGED <<fileVars, tempDir, calendar, runs, store, artifacts, published,
                   queueVars, pc, caught, killedAt, ops>>

\* worker.close() resolves: without the force argument it resolves once the
\* jobs being processed have finished.
WorkerClosed(q) ==
    /\ proc[q].pc = "close"
    /\ active[q] = {}
    /\ proc' = [proc EXCEPT ![q].pc = "quit"]
    /\ UNCHANGED <<fileVars, tempDir, calendar, runs, store, artifacts, published,
                   queueVars, pc, caught, killedAt, ops>>

\* await connection.quit()
ConnectionQuit(q) ==
    /\ proc[q].pc = "quit"
    /\ proc' = [proc EXCEPT ![q].pc = "exit", ![q].conn = "closed"]
    /\ UNCHANGED <<fileVars, tempDir, calendar, runs, store, artifacts, published,
                   queueVars, pc, caught, killedAt, ops>>

\* process.exit(0)
Exit(q) ==
    /\ proc[q].pc = "exit"
    /\ proc' = [proc EXCEPT ![q].pc = "exited"]
    /\ UNCHANGED <<fileVars, tempDir, calendar, runs, store, artifacts, published,
                   queueVars, pc, caught, killedAt, ops>>

\* The worker fetches the next job unless it is closing.
FetchJob(q, m) ==
    /\ proc[q].pc = "running"
    /\ StartJob(q, m)

\* Discovery, the four workers with failing tools and retries, and worker
\* processes that are told to shut down.
NextShutdown ==
    \/ \E m \in MeetingIds : Discover(m)
    \/ \E q \in Queues, m \in MeetingIds : FetchJob(q, m)
    \/ \E q \in Queues, m \in MeetingIds, ok \in BOOLEAN, audioOk \in BOOLEAN :
           Work(q, m, ok, audioOk)
    \/ \E q \in Queues, m \in MeetingIds : AdvanceUpdate(q, m)
    \/ \E q \in Queues, m \in MeetingIds : AdvanceEnqueue(q, m)
    \/ \E q \in Queues, m \in MeetingIds : CompleteJob(q, m)
    \/ \E q \in Queues, m \in MeetingIds : MarkFailed(q, m)
    \/ \E q \in Queues, m \in MeetingIds : FailJob(q, m)
    \/ \E q \in Queues, m \in MeetingIds : PromoteDelayed(q, m)
    \/ \E q \in Queues : Signal(q)
    \/ \E q \in Queues : WorkerClosed(q)
    \/ \E q \in Queues : ConnectionQuit(q)
    \/ \E q \in Queues : Exit(q)

SpecShutdown == InitTwo /\ [][NextShutdown]_vars

\* C23: once a worker process has received the signal it starts no job; when
\* it exits, none of the jobs that were in flight at the signal (nor any other
\* job of its queue) is still active, and its connection has been closed.
C23_ShutdownDrainsThenCloses ==
    [][\A q \in Queues :
          /\ \A m \in MeetingIds :
                 (m \notin active[q] /\ m \in active'[q]) => proc[q].pc = "running"
          /\ (proc[q].pc # "exited" /\ proc'[q].pc = "exited") =>
                 /\ proc[q].inFlight \cap active[q] = {}
                 /\ active[q] = {}
                 /\ \A m \in MeetingIds : pc[q][m] = "idle"
                 /\ proc[q].conn = "closed"]_vars

\* A worker has exited after a signal that found a job in flight and another
\* one waiting, which is still waiting.
C23_Witness ==
    \E q \in Queues :
        /\ proc[q].pc = "exited"
        /\ proc[q].inFlight # {}
        /\ wait[q] # <<>>
        /\ proc[q].inFlight \subseteq completed[q] \cup delayed[q] \cup failed[q]

-----------------------------------------------------------------------------
(* One worker process and its pool of concurrently processed jobs *)

\* queue-manager add <queue> <meetingId>, issued for the queue whose worker
\* is running, any number of times: a job id is added once.
enqueueJob(q, m) ==
    /\ proc[q].pc = "running"
    /\ ~JobExists(q, m)
    /\ getMeeting(m).present
    /\ wait' = QueueAdd(wait, q, m)
    /\ UNCHANGED <<fileVars, proc, tempDir, calendar, runs, store, artifacts, published,
                   active, delayed, completed, failed, attemptsMade, backoff, pc, caught,
                   killedAt, ops>>

\* One of the four worker processes is running; the calendar has four meetings.
InitPool == \E q \in Queues : InitState(MeetingIds, {q})

\* Discovery, the operator adding jobs, and the running worker with tools that
\* do not fail; a job still fails when its meeting lacks what the worker needs.
NextPool ==
    \/ \E m \in MeetingIds : Discover(m)
    \/ \E q \in Queues, m \in MeetingIds : enqueueJob(q, m)
    \/ \E q \in Queues, m \in MeetingIds : FetchJob(q, m)
    \/ \E q \in Queues, m \in MeetingIds : Work(q, m, TRUE, TRUE)
    \/ \E q \in Queues, m \in MeetingIds : AdvanceUpdate(q, m)
    \/ \E q \in Queues, m \in MeetingIds : AdvanceEnqueue(q, m)
    \/ \E q \in Queues, m \in MeetingIds : CompleteJob(q, m)
    \/ \E q \in Queues, m \in MeetingIds : MarkFailed(q, m)
    \/ \E q \in Queues, m \in MeetingIds : FailJob(q, m)
    \/ \E q \in Queues, m \in MeetingIds : PromoteDelayed(q, m)

SpecPool == InitPool /\ [][NextPool]_vars

\* C24: a worker process never processes more than 1 upload job, 1 diarize
\* job, 2 download jobs or 3 extract jobs at the same time.
C24_PoolLimits ==
    /\ Cardinality(Running("upload")) <= 1
    /\ Cardinality(Running("diarize")) <= 1
    /\ Cardinality(Running("download")) <= 2
    /\ Cardinality(Running("extract")) <= 3
    /\ \A q \in Queues : Running(q) = active[q]

\* The extract worker is processing three jobs while a fourth one waits.
C24_Witness ==
    /\ Cardinality(Running("extract")) = 3
    /\ wait["extract"] # <<>>

-----------------------------------------------------------------------------
(* Setting a meeting's phase directly *)

\* The state arguments tried: the six phases, a name that MeetingStates of
\* db/init.js has and the workflow table has not, and the empty string.
StateArgs == Phases \cup {"DOWNLOADING", ""}

\* queue-manager set-state <meetingId> <state>: main requires an argument that
\* is not empty and passes it on as it is.
setMeetingState(m, newState) ==
    /\ ops < MaxOps
    /\ newState # ""
    /\ getMeeting(m).present
    /\ store' = updateMeetingState(store, m, newState, NoData)
    /\ ops' = ops + 1
    /\ UNCHANGED <<fileVars, proc, tempDir, calendar, runs, artifacts, published,
                   queueVars, pc, caught, killedAt>>

\* PATCH /api/meetings/:id/state with body { state }: 400 when state is
\* missing or empty, otherwise the UPDATE with the state as sent.
PatchState(m, state) ==
    /\ ops < MaxOps
    /\ store' = IF state = "" THEN store ELSE updateMeetingState(store, m, state, NoData)
    /\ ops' = ops + 1
    /\ UNCHANGED <<fileVars, proc, tempDir, calendar, runs, artifacts, published,
                   queueVars, pc, caught, killedAt>>

\* Discovery, the workers, retries, restarts, set-state and the state API.
NextSetState ==
    \/ NextAuto
    \/ \E m \in MeetingIds, s \in Phases : restartMeeting(m, s)
    \/ \E m \in MeetingIds, s \in StateArgs : setMeetingState(m, s)
    \/ \E m \in MeetingIds, s \in StateArgs : PatchState(m, s)

SpecSetState == Init /\ [][NextSetState]_vars

\* C25: the phase stored for a meeting is always one of DISCOVERED,
\* DOWNLOADED, EXTRACTED, UPLOADED, DIARIZED, FAILED.
C25_StoredPhaseIsAPhase ==
    \A m \in MeetingIds :
        getMeeting(m).present =>
            getMeeting(m).state \in
                {"DISCOVERED", "DOWNLOADED", "EXTRACTED", "UPLOADED", "DIARIZED", "FAILED"}

-----------------------------------------------------------------------------
(* The file server *)

MaxReqs == 2

\* The type parameters tried: two storage types, a name that is none, and "..".
TypeArgs == {"raw_video", "derived_diarized", "bogus", ".."}

\* The paths tried in GET /files/<path>: some segments that lead upwards or
\* are hidden ("..", its percent-encoding, a dotfile), then directories.
UpArgs == {"..", "%2e%2e", ".git"}

MaxUps == 1

DirArgs ==
    {ups \o dirs : ups \in UNION {[1..n -> UpArgs] : n \in 0..MaxUps},
                   dirs \in {<<>>, <<"raw", "videos">>, <<"downloads", "raw", "videos">>}}

\* The file names tried in GET /files/<path>.
StemArgs == {<<"a">>, <<"a", "_">>}

\* decodeURIComponent on a directory name
decode(seg) == IF seg = "%2e%2e" THEN ".." ELSE seg

isDotfile(seg) == seg = ".git"

\* A file name that starts with a dot: an empty stem before an ending that
\* starts with one.
isDotName(stem, ext) == stem = <<>> /\ ext \in {".mp4", ".mp3", ".m4a"}

\* A static handler that resolves the decoded path without looking for "..".
serveStaticResolving(disk, dirs, stem, ext) ==
    LET decoded == [i \in 1..Len(dirs) |-> decode(dirs[i])]
        path == [dirs |-> resolve(<<>>, STORAGE_ROOT \o decoded), stem |-> stem, ext |-> ext]
    IN  IF isDotName(stem, ext) \/ \E i \in 1..Len(decoded) : isDotfile(decoded[i])
        THEN [status |-> "404", read |-> NoPath, content |-> "none"]
        ELSE IF fileExists(disk, path)
        THEN [status |-> "200", read |-> path, content |-> contentOf(disk, path)]
        ELSE [status |-> "404", read |-> NoPath, content |-> "none"]

\* express.static(STORAGE_ROOT, { dotfiles: 'deny', index: false }): the path
\* is decoded; a decoded path with a ".." segment or a dotfile is not served
\* and, like a missing file, falls through to the 404 handler.
serveStatic(disk, dirs, stem, ext) ==
    LET decoded == [i \in 1..Len(dirs) |-> decode(dirs[i])]
        path == [dirs |-> resolve(<<>>, STORAGE_ROOT \o decoded), stem |-> stem, ext |-> ext]
    IN  IF isDotName(stem, ext)
           \/ \E i \in 1..Len(decoded) : decoded[i] = ".." \/ isDotfile(decoded[i])
        THEN [status |-> "404", read |-> NoPath, content |-> "none"]
        ELSE IF fileExists(disk, path)
        THEN [status |-> "200", read |-> path, content |-> contentOf(disk, path)]
        ELSE [status |-> "404", read |-> NoPath, content |-> "none"]

\* app.use('/files', ...): 403 unless path.join(STORAGE_ROOT, req.path)
\* resolves to STORAGE_ROOT or below, then express.static.
getFiles(disk, dirs, stem, ext) ==
    IF ~isPathSafe(STORAGE_ROOT \o dirs)
    THEN [status |-> "403", read |-> NoPath, content |-> "none"]
    ELSE serveStatic(disk, dirs, stem, ext)

\* app.post('/upload/:type/:meetingId', upload.single('file'), ...): what the
\* handler answers, the disk and the number of files in /tmp/uploads
\* afterwards.  multer has stored the file part, if there is one, in
\* /tmp/uploads; without a file part req.file is undefined, so req.file.path
\* throws and the catch block answers 500.
postUpload(disk, tmp, type, meetingId, hasFile, content) ==
    LET stored == IF hasFile THEN tmp + 1 ELSE tmp
        unlinked == stored - 1
        refused(status) ==
            IF hasFile
            THEN [status |-> status, disk |-> disk, tmp |-> unlinked, wrote |-> NoPath]
            ELSE [status |-> "500", disk |-> disk, tmp |-> stored, wrote |-> NoPath]
    IN  IF ~isValidStorageType(type) THEN refused("400")
        ELSE IF ~isValidMeetingId(meetingId) THEN refused("400")
        ELSE IF ~isPathSafe(pathFor(type, meetingId).dirs) THEN refused("403")
        ELSE IF ~hasFile THEN refused("500")
        ELSE [status |-> "200", disk |-> putFile(disk, pathFor(type, meetingId), content),
              tmp |-> unlinked, wrote |-> pathFor(type, meetingId)]

pipelineVars ==
    <<calendar, runs, store, artifacts, published, queueVars, pc, caught, killedAt, ops,
      proc, tempDir>>

\* A client sends POST /upload/<type>/<meetingId>, with or without a file part.
Upload(type, meetingId, hasFile, content) ==
    /\ reqs < MaxReqs
    /\ meetingId # <<>>
    /\ files' = postUpload(files, tmpUploads, type, meetingId, hasFile, content).disk
    /\ tmpUploads' = postUpload(files, tmpUploads, type, meetingId, hasFile, content).tmp
    /\ reply' = [NoReply EXCEPT
                   !.op = "upload", !.type = type, !.id = meetingId, !.hasFile = hasFile,
                   !.sent = content,
                   !.status = postUpload(files, tmpUploads, type, meetingId, hasFile, content).status,
                   !.wrote = postUpload(files, tmpUploads, type, meetingId, hasFile, content).wrote]
    /\ reqs' = reqs + 1
    /\ UNCHANGED <<pipelineVars, call>>

\* A client sends GET /files/<dirs>/<stem><ext>.
GetFile(dirs, stem, ext) ==
    /\ reqs < MaxReqs
    /\ reply' = [NoReply EXCEPT
                   !.op = "get",
                   !.safe = isPathSafe(STORAGE_ROOT \o dirs),
                   !.status = getFiles(files, dirs, stem, ext).status,
                   !.read = getFiles(files, dirs, stem, ext).read,
                   !.content = getFiles(files, dirs, stem, ext).content]
    /\ reqs' = reqs + 1
    /\ UNCHANGED <<pipelineVars, files, tmpUploads, call>>

NextFileServer ==
    \/ \E type \in TypeArgs, id \in IdArgs, hasFile \in BOOLEAN, content \in Contents :
           Upload(type, id, hasFile, content)
    \/ \E dirs \in DirArgs, stem \in StemArgs : GetFile(dirs, stem, ".mp4")

SpecFileServer == Init /\ [][NextFileServer]_vars

C27_BadUploadIs400 ==
    (reply.op = "upload" /\ (~isValidStorageType(reply.type) \/ ~isValidMeetingId(reply.id))) =>
        /\ reply.status = "400"
        /\ reply.wrote = NoPath
        /\ tmpUploads = 0

-----------------------------------------------------------------------------
(* pathFor as a function of its arguments *)

\* The characters of the meeting ids pathFor is called with: those of Alnum,
\* an underscore, a hyphen, a dot and a blank.
PathChars == Alnum \cup {"_", "-", ".", " "}

MaxPathIdLen == 3

PathIdArgs == UNION {[1..n -> PathChars] : n \in 0..MaxPathIdLen}

\* pathFor(type, meetingId) is called and returns.  The function keeps no
\* state, so one call per behaviour covers it.
CallPathFor(type, meetingId) ==
    /\ call = NoCall
    /\ call' = [fn |-> "pathFor", arg |-> meetingId, result |-> pathFor(type, meetingId)]
    /\ UNCHANGED <<pipelineVars, files, tmpUploads, reply, reqs>>

NextPaths == \E type \in StorageTypes, id \in PathIdArgs : CallPathFor(type, id)

SpecPaths == Init /\ [][NextPaths]_vars

\* C28: for every meeting id, the empty one included, the sanitised id that
\* pathFor puts into the path is not empty and consists of letters, digits and
\* underscores.
C28_SanitisedIdIsAName ==
    call.fn = "pathFor" =>
        /\ Len(call.result.stem) >= 1
        /\ \A i \in 1..Len(call.result.stem) : call.result.stem[i] \in {"a", "B", "7", "_"}

-----------------------------------------------------------------------------
(* readFile and writeFile of the storage module, local and remote *)

MaxClientIdLen == 2

ClientIdArgs == UNION {[1..n -> Chars] : n \in 0..MaxClientIdLen}

ClientTypeArgs == {"raw_video", "derived_diarized"}

Modes == {"local", "remote"}

\* The position of the first "?" in s from position i on, Len(s) + 1 if none.
RECURSIVE queryStart(_, _)
queryStart(s, i) ==
    IF i > Len(s) THEN i
    ELSE IF s[i] = "?" THEN i
    ELSE queryStart(s, i + 1)

\* The :meetingId parameter the server sees for the URL
\* `.../upload/${type}/${meetingId}`: the URL's path ends before a "?".
idParam(meetingId) == SubSeq(meetingId, 1, queryStart(meetingId, 1) - 1)

\* Whether the URL's path matches /upload/:type/:meetingId: the last segment
\* must not be empty, and fetch removes a "." or ".." segment from the path.
routeMatches(meetingId) ==
    idParam(meetingId) \notin {<<>>, <<".">>, <<".", ".">>}

\* uploadFileToRemote: POST the file; throw unless response.ok.
uploadFileToRemote(disk, tmp, content, type, meetingId) ==
    IF routeMatches(meetingId)
    THEN postUpload(disk, tmp, type, idParam(meetingId), TRUE, content)
    ELSE [status |-> "404", disk |-> disk, tmp |-> tmp, wrote |-> NoPath]

\* downloadFileFromUrl(urlFor(type, meetingId), localPath): GET
\* /files/<relative path of pathFor(type, meetingId)>; throw unless response.ok.
downloadFileFromUrl(disk, type, meetingId) ==
    getFiles(disk, relative(pathFor(type, meetingId)).dirs,
             pathFor(type, meetingId).stem, pathFor(type, meetingId).ext)

\* writeFile(localPath, type, meetingId), content being what localPath holds.
writeFile(mode, content, type, meetingId) ==
    /\ reqs < MaxReqs
    /\ reqs' = reqs + 1
    /\ IF mode = "local"
       THEN /\ files' = putFile(files, pathFor(type, meetingId), content)
            /\ tmpUploads' = tmpUploads
            /\ reply' = [NoReply EXCEPT
                           !.op = "writeFile", !.mode = mode, !.type = type, !.id = meetingId,
                           !.sent = content, !.status = "ok",
                           !.wrote = pathFor(type, meetingId)]
       ELSE /\ files' = uploadFileToRemote(files, tmpUploads, content, type, meetingId).disk
            /\ tmpUploads' = uploadFileToRemote(files, tmpUploads, content, type, meetingId).tmp
            /\ reply' = [NoReply EXCEPT
                           !.op = "writeFile", !.mode = mode, !.type = type, !.id = meetingId,
                           !.sent = content,
                           !.status =
                               IF uploadFileToRemote(files, tmpUploads, content, type,
                                                     meetingId).status = "200"
                               THEN "ok" ELSE "throw",
                           !.wrote = uploadFileToRemote(files, tmpUploads, content, type,
                                                        meetingId).wrote]
    /\ UNCHANGED <<pipelineVars, call>>

\* readFile(type, meetingId, localPath): reply.content is what localPath holds
\* afterwards.
readFile(mode, type, meetingId) ==
    /\ reqs < MaxReqs
    /\ reqs' = reqs + 1
    /\ IF mode = "local"
       THEN reply' = [NoReply EXCEPT
                        !.op = "readFile", !.mode = mode, !.type = type, !.id = meetingId,
                        !.status = IF fileExists(files, pathFor(type, meetingId))
                                   THEN "ok" ELSE "throw",
                        !.read = IF fileExists(files, pathFor(type, meetingId))
                                 THEN pathFor(type, meetingId) ELSE NoPath,
                        !.content = IF fileExists(files, pathFor(type, meetingId))
                                    THEN contentOf(files, pathFor(type, meetingId))
                                    ELSE "none"]
       ELSE reply' = [NoReply EXCEPT
                        !.op = "readFile", !.mode = mode, !.type = type, !.id = meetingId,
                        !.status = IF downloadFileFromUrl(files, type, meetingId).status = "200"
                                   THEN "ok" ELSE "throw",
                        !.read = downloadFileFromUrl(files, type, meetingId).read,
                        !.content = downloadFileFromUrl(files, type, meetingId).content]
    /\ UNCHANGED <<pipelineVars, files, tmpUploads, call>>

NextStorage ==
    \/ \E mode \in Modes, content \in Contents, type \in ClientTypeArgs, id \in ClientIdArgs :
           writeFile(mode, content, type, id)
    \/ \E mode \in Modes, type \in ClientTypeArgs, id \in ClientIdArgs :
           readFile(mode, type, id)

SpecStorage == Init /\ [][NextStorage]_vars

\* C29: in local and in remote mode alike, a readFile that follows a
\* successful writeFile of the same type and meeting id succeeds and yields
\* the content written (pathFor being a function of its arguments).
C29_ReadsBackWhatWasWritten ==
    [][\A mode \in Modes, type \in ClientTypeArgs, id \in ClientIdArgs :
          (/\ reply.op = "writeFile" /\ reply.status = "ok"
           /\ reply.mode = mode /\ reply.type = type /\ reply.id = id
           /\ readFile(mode, type, id)) =>
              /\ reply'.status = "ok"
              /\ reply'.content = reply.sent]_vars

-----------------------------------------------------------------------------
(* Agenda items and the chapter description *)

\* null, for a time in ms and for a formatted time.
NullMs == -1

NullTime == <<>>

\* Infinity of `a.timeStart || Infinity`: above every TimeStart tried.
Infinity == 1000000000

\* The TimeStart values of bookmarks tried, in ms: the start of the video,
\* half a second, one second, and 1 h 2 min 3 s.
TimeStartArgs == {0, 500, 1000, 3723000}

Titles == {"Call to order", "Adjourn"}

MaxItems == 3

\* formatTime(ms): null for 0 (`if (!ms) return null`), else hours, minutes
\* and seconds of the whole seconds, each printed with two digits at least.
formatTime(ms) ==
    IF ms = 0 \/ ms = NullMs THEN NullTime
    ELSE LET totalSeconds == ms \div 1000
         IN  <<totalSeconds \div 3600, (totalSeconds % 3600) \div 60, totalSeconds % 60>>

\* The agenda item extractAgendaWithTimestamps pushes for an item with a
\* bookmark (timeStart is its TimeStart) or without one (timeStart null).
agendaItem(timeStart, title) ==
    [title |-> title, timeStart |-> timeStart, startTime |-> formatTime(timeStart)]

\* Array.prototype.sort, which is stable, by the key given with each element.
RECURSIVE insertByKey(_, _)
insertByKey(sorted, e) ==
    IF sorted = <<>> THEN <<e>>
    ELSE IF Head(sorted).key <= e.key THEN <<Head(sorted)>> \o insertByKey(Tail(sorted), e)
    ELSE <<e>> \o sorted

RECURSIVE sortByKey(_, _)
sortByKey(sorted, rest) ==
    IF rest = <<>> THEN sorted
    ELSE sortByKey(insertByKey(sorted, Head(rest)), Tail(rest))

\* agendaItems.sort((a, b) => (a.timeStart || Infinity) - (b.timeStart || Infinity))
sortAgendaItems(items) ==
    LET keyed == [i \in 1..Len(items) |->
                    [key  |-> IF items[i].timeStart \in {0, NullMs}
                              THEN Infinity ELSE items[i].timeStart,
                     item |-> items[i]]]
        sorted == sortByKey(<<>>, keyed)
    IN  [i \in 1..Len(sorted) |-> sorted[i].item]

\* agendaItems.filter(item => item.timeStart !== null).sort((a, b) => a.timeStart - b.timeStart)
chaptersItems(agendaItems) ==
    LET timed == SelectSeq(agendaItems, LAMBDA item : item.timeStart # NullMs)
        keyed == [i \in 1..Len(timed) |-> [key |-> timed[i].timeStart, item |-> timed[i]]]
        sorted == sortByKey(<<>>, keyed)
    IN  [i \in 1..Len(sorted) |-> sorted[i].item]

ChapterLine(time, title) == [kind |-> "chapter", time |-> time, title |-> title]

HeaderLine(kind) == [kind |-> kind, time |-> NullTime, title |-> ""]

\* generateYouTubeChapters(meeting, agendaData): the lines of the text it
\* returns; no line for ''.
generateYouTubeChapters(agendaItems) ==
    LET items == chaptersItems(agendaItems)
    IN  IF items = <<>> THEN <<>>
        ELSE <<HeaderLine("title"), HeaderLine("blank"), HeaderLine("heading")>>
             \o (IF items[1].startTime # <<0, 0, 0>>
                 THEN <<ChapterLine(<<0, 0, 0>>, "Pre-meeting")>> ELSE <<>>)
             \o [i \in 1..Len(items) |-> ChapterLine(items[i].startTime, items[i].title)]

\* The agenda items of a page: per item its bookmark's TimeStart or null, and
\* its title.
AgendaArgs ==
    UNION {[1..n -> {agendaItem(t, title) : t \in TimeStartArgs \cup {NullMs}, title \in Titles}] :
               n \in 0..MaxItems}

\* extractMeetingData: the agenda is extracted and sorted, and the chapter
\* description generated from it.  The functions keep no state, so one call
\* per behaviour covers them.
CallChapters(items) ==
    /\ call = NoCall
    /\ call' = [fn |-> "generateYouTubeChapters", arg |-> sortAgendaItems(items),
                result |-> generateYouTubeChapters(sortAgendaItems(items))]
    /\ UNCHANGED <<pipelineVars, files, tmpUploads, reply, reqs>>

NextChapters == \E items \in AgendaArgs : CallChapters(items)

SpecChapters == Init /\ [][NextChapters]_vars

\* The chapter lines of a generated text.
chapterLines(lines) == SelectSeq(lines, LAMBDA l : l.kind = "chapter")

\* The timestamped items of an agenda.
timedItems(items) == SelectSeq(items, LAMBDA item : item.timeStart # NullMs)

\* C30: for an agenda with a timestamped item, the first chapter line has the
\* time 00:00:00, and it is the Pre-meeting line exactly when the earliest
\* timestamped item starts at 00:00:01 or later.
C30_FirstChapterAtOrigin ==
    (call.fn = "generateYouTubeChapters" /\ timedItems(call.arg) # <<>>) =>
        LET earliest == CHOOSE t \in {timedItems(call.arg)[i].timeStart :
                                          i \in 1..Len(timedItems(call.arg))} :
                            \A i \in 1..Len(timedItems(call.arg)) :
                                t <= timedItems(call.arg)[i].timeStart
            first == chapterLines(call.result)[1]
        IN  /\ chapterLines(call.result) # <<>>
            /\ first.time = <<0, 0, 0>>
            /\ (first.title = "Pre-meeting") <=> (earliest >= 1000)

\* The time HH:MM:SS of a bookmark at ms milliseconds, as hours, minutes and
\* seconds.
clock(ms) == <<ms \div 3600000, (ms % 3600000) \div 60000, (ms % 60000) \div 1000>>

\* The lines of a generated text that stand for agenda items: the chapter
\* lines but the Pre-meeting line.
itemLines(lines) == SelectSeq(chapterLines(lines), LAMBDA l : l.title # "Pre-meeting")

\* C31: every agenda item with a bookmark, one at 0 ms included, yields
\* exactly one chapter line "HH:MM:SS <title>", items without a bookmark
\* yield none, and the lines are in ascending order of TimeStart.
C31_OneChapterLinePerBookmark ==
    (call.fn = "generateYouTubeChapters") =>
        LET lines == itemLines(call.result)
            timed == timedItems(call.arg)
            n     == Len(timed)
        IN  /\ Len(lines) = n
            /\ \E p \in [1..n -> 1..n] :
                /\ \A i, j \in 1..n : i # j => p[i] # p[j]
                /\ \A i \in 1..n :
                    /\ lines[i].title = timed[p[i]].title
                    /\ lines[i].time = clock(timed[p[i]].timeStart)
                /\ \A i, j \in 1..n :
                    i < j => timed[p[i]].timeStart <= timed[p[j]].timeStart

-----------------------------------------------------------------------------
(* The add command of the queue-manager CLI, statement by statement *)

\* The add commands of a behaviour, and the meeting ids they are given: one
\* that discovery inserts and one that no row ever has.
MaxAdds == 1

AddArgs == {"m1", "m2"}

\* addJob up to the call of queue.add: the command returns when
\* queue.getJob(jobId) finds a job, whatever its state, or when the meeting
\* is not found; a lookup of the meeting that throws (apiUp is false) is
\* logged and the command goes on.
addJobGet(q, m, apiUp) ==
    /\ ops < MaxAdds
    /\ call.result # <<"adding">>
    /\ call' = [fn |-> "addJob", arg |-> <<q, m>>,
                result |-> IF JobExists(q, m) THEN <<"exists">>
                           ELSE IF apiUp /\ ~getMeeting(m).present THEN <<"not found">>
                           ELSE <<"adding">>]
    /\ ops' = ops + 1
    /\ UNCHANGED <<files, tmpUploads, reply, reqs, proc, tempDir, calendar, runs, store,
                   artifacts, published, queueVars, pc, caught, killedAt>>

\* addJob: queue.add('process', { meetingId }, { jobId })
addJobAdd(q, m) ==
    /\ call = [fn |-> "addJob", arg |-> <<q, m>>, result |-> <<"adding">>]
    /\ wait' = QueueAdd(wait, q, m)
    /\ call' = [call EXCEPT !.result = <<"added">>]
    /\ UNCHANGED <<files, tmpUploads, reply, reqs, proc, tempDir, calendar, runs, store,
                   artifacts, published, active, delayed, completed, failed,
                   attemptsMade, backoff, pc, caught, killedAt, ops>>

\* Discovery, the four workers with failing tools and retries, and the
\* operator's add command.
NextAdd ==
    \/ NextAuto
    \/ \E q \in Queues, m \in AddArgs, apiUp \in BOOLEAN : addJobGet(q, m, apiUp)
    \/ \E q \in Queues, m \in AddArgs : addJobAdd(q, m)

SpecAdd == Init /\ [][NextAdd]_vars

\* What the queue holds of the job <q>-<m>.
jobOf(w, a, d, c, f, n, q, m) ==
    [waiting |-> Count(w[q], m), active |-> m \in a[q], delayed |-> m \in d[q],
     completed |-> m \in c[q], failed |-> m \in f[q], attemptsMade |-> n[q][m]]

\* C32: a step of the add command for a job id that exists in the queue, in
\* whatever state, creates no job and leaves the existing job as it is.
C32_AddOfExistingJobIsNoOp ==
    [][\A q \in Queues, m \in MeetingIds :
          ((\E apiUp \in BOOLEAN : addJobGet(q, m, apiUp)) \/ addJobAdd(q, m))
          /\ JobExists(q, m)
          => /\ jobOf(wait', active', delayed', completed', failed', attemptsMade', q, m)
                = jobOf(wait, active, delayed, completed, failed, attemptsMade, q, m)
             /\ wait' = wait]_vars

\* The add command has found a completed job of its id and returned.
C32_Witness ==
    /\ call.fn = "addJob"
    /\ call.result = <<"exists">>
    /\ call.arg[2] \in completed[call.arg[1]]

-----------------------------------------------------------------------------
(* main of the queue-manager CLI: the meeting commands and their exit status *)

\* The command lines tried: no command, restart, set-state and a word that
\* is no command; a meeting id that is missing, one that discovery inserts
\* and one that no row has; a state that is missing, two phases and a word
\* that is no phase.
CommandArgs == {"", "restart", "set-state", "bogus"}

CliIdArgs == {"", "m1", "m2"}

CliStateArgs == {"", "UPLOADED", "DIARIZED", "BOGUS"}

\* What a command did: the path main took, whether the requested operation
\* was carried out, and the status of process.exit.
Outcome(path, done, status) == [path |-> path, done |-> done, status |-> status]

\* main(): the usage text and the argument checks exit with 1; restartMeeting
\* and setMeetingState catch every error themselves and return, as they do
\* when the meeting is not found, and main then exits with 0.  storeOk is
\* false when the state store fails at the lookup of the meeting.
cliOutcome(command, arg1, arg2, storeOk) ==
    IF command = "" THEN Outcome("usage", FALSE, 1)
    ELSE IF command \notin {"restart", "set-state"} THEN Outcome("unknown command", FALSE, 1)
    ELSE IF arg1 = "" \/ arg2 = "" THEN Outcome("missing argument", FALSE, 1)
    ELSE IF ~storeOk THEN Outcome("error caught", FALSE, 0)
    ELSE IF ~getMeeting(arg1).present THEN Outcome("not found", FALSE, 0)
    ELSE IF command = "restart" /\ arg2 \notin DOMAIN WORKFLOW_STEPS
         THEN Outcome("error caught", FALSE, 0)
    ELSE Outcome("done", TRUE, 0)

\* One run of the CLI with a meeting command.
main(command, arg1, arg2, storeOk) ==
    /\ ops < MaxOps
    /\ call' = [fn |-> "main", arg |-> <<command, arg1, arg2>>,
                result |-> <<cliOutcome(command, arg1, arg2, storeOk)>>]
    /\ store' = IF ~cliOutcome(command, arg1, arg2, storeOk).done THEN store
                ELSE IF command = "restart" THEN restartWorkflowUpdate(store, arg1, arg2)
                ELSE updateMeetingState(store, arg1, arg2, NoData)
    /\ wait' = IF cliOutcome(command, arg1, arg2, storeOk).done /\ command = "restart"
               THEN restartWorkflowEnqueue(wait, arg1, arg2) ELSE wait
    /\ ops' = ops + 1
    /\ UNCHANGED <<files, tmpUploads, reply, reqs, proc, tempDir, calendar, runs,
                   artifacts, published, active, delayed, completed, failed,
                   attemptsMade, backoff, pc, caught, killedAt>>

\* Discovery, the workers and the operator's meeting commands.
NextCli ==
    \/ NextAuto
    \/ \E command \in CommandArgs, arg1 \in CliIdArgs, arg2 \in CliStateArgs,
          storeOk \in BOOLEAN : main(command, arg1, arg2, storeOk)

SpecCli == Init /\ [][NextCli]_vars

\* C33: the CLI exits with status 1 whenever a subcommand gets an invalid
\* argument or fails at run time, and with 0 only when the requested
\* operation was carried out.
C33_ExitStatusTellsSuccess ==
    (call.fn = "main") =>
        /\ call.result[1].status \in {0, 1}
        /\ (call.result[1].status = 0) <=> call.result[1].done

-----------------------------------------------------------------------------
(* The pipeline under failing tools, crashes and fair scheduling *)

\* The kills of a behaviour.
MaxKills == 2

\* The worker process is killed while the processor of the job runs, as in
\* Crash; the kills are counted, so that a behaviour has finitely many.
KillWorker(q, m) ==
    /\ ops < MaxKills
    /\ pc[q][m] # "idle"
    /\ pc' = [pc EXCEPT ![q][m] = "idle"]
    /\ caught' = [caught EXCEPT ![q][m] = "null"]
    /\ killedAt' = [killedAt EXCEPT ![q][m] = pc[q][m]]
    /\ ops' = ops + 1
    /\ UNCHANGED <<fileVars, proc, tempDir, calendar, runs, store, artifacts, published,
                   queueVars>>

\* Discovery and the four workers with failing tools, automatic retries,
\* worker processes that are killed at any point, and redelivery.
NextRecover ==
    \/ NextAuto
    \/ \E q \in Queues, m \in MeetingIds : KillWorker(q, m)
    \/ \E q \in Queues, m \in MeetingIds : Redeliver(q, m)

\* The workers keep being scheduled: a step of a worker or of the queue that
\* stays possible is taken.  Nothing obliges a tool to succeed or a process
\* to die.
FairnessRecover ==
    \A q \in Queues, m \in MeetingIds :
        /\ WF_vars(StartJob(q, m))
        /\ WF_vars(\E ok \in BOOLEAN, audioOk \in BOOLEAN : Work(q, m, ok, audioOk))
        /\ WF_vars(AdvanceUpdate(q, m))
        /\ WF_vars(AdvanceEnqueue(q, m))
        /\ WF_vars(CompleteJob(q, m))
        /\ WF_vars(MarkFailed(q, m))
        /\ WF_vars(FailJob(q, m))
        /\ WF_vars(PromoteDelayed(q, m))
        /\ WF_vars(Redeliver(q, m))

SpecRecover == InitTwo /\ [][NextRecover]_vars /\ FairnessRecover

\* C34: every meeting that discovery has inserted eventually reaches
\* DIARIZED or FAILED, whatever attempts fail and whatever processes are
\* killed and restarted.
C34_InsertedLeadsToTerminal ==
    \A m \in MeetingIds :
        (store[m].state # "null") ~> (store[m].state \in {"DIARIZED", "FAILED"})

-----------------------------------------------------------------------------
(* Discovery runs that stop between the insert and the enqueue *)

\* The run's process dies after insertMeeting and before queue.add, or
\* queue.add rejects and the catch block ends the process with exit(1).
DiscoveryStop(r) ==
    /\ runs[r].pc = "add"
    /\ runs' = [runs EXCEPT ![r].pc = "stopped"]
    /\ UNCHANGED <<fileVars, proc, tempDir, calendar, store, artifacts, published,
                   queueVars, pc, caught, killedAt, ops>>

\* Discovery runs that may stop, started again and again, next to the four
\* workers with tools that do not fail.
NextStop ==
    \/ \E r \in Runs : StartDiscovery(r)
    \/ \E r \in Runs, m \in MeetingIds : DiscoveryGet(r, m)
    \/ \E r \in Runs : DiscoveryInsert(r)
    \/ \E r \in Runs : DiscoveryAdd(r)
    \/ \E r \in Runs : DiscoveryStop(r)
    \/ \E r \in Runs : DiscoveryEnd(r)
    \/ \E q \in Queues, m \in MeetingIds : StartJob(q, m)
    \/ \E q \in Queues, m \in MeetingIds : Work(q, m, TRUE, TRUE)
    \/ \E q \in Queues, m \in MeetingIds : AdvanceUpdate(q, m)
    \/ \E q \in Queues, m \in MeetingIds : AdvanceEnqueue(q, m)
    \/ \E q \in Queues, m \in MeetingIds : CompleteJob(q, m)

\* The timer starts runs for ever, a run that is not stopped goes on, and the
\* workers are scheduled.
FairnessStop ==
    /\ \A r \in Runs :
        /\ WF_vars(StartDiscovery(r))
        /\ WF_vars(\E m \in MeetingIds : DiscoveryGet(r, m))
        /\ WF_vars(DiscoveryInsert(r))
        /\ WF_vars(DiscoveryAdd(r))
        /\ WF_vars(DiscoveryEnd(r))
    /\ Fairness

SpecStop == InitTwo /\ [][NextStop]_vars /\ FairnessStop

\* C35: a meeting that is DISCOVERED and has no download job, because the
\* run that inserted it stopped before the enqueue, gets its download job
\* from a later run.
C35_LaterRunEnqueuesMissingJob ==
    \A m \in MeetingIds :
        (store[m].state = "DISCOVERED" /\ Jobs("download", m) = 0)
            ~> (Jobs("download", m) > 0)

-----------------------------------------------------------------------------
(* Two discovery runs that overlap *)

\* C36: when two discovery runs overlap, the insert of a meeting that the
\* other run has inserted leaves the row as it is, no meeting ever has more
\* than one download job, and when both runs have completed every meeting of
\* the calendar has its row and exactly one download job.
C36_OverlappingRunsInsertOnce ==
    [][/\ \A r \in Runs :
            (DiscoveryInsert(r) /\ getMeeting(runs[r].meeting).present) => store' = store
       /\ \A m \in MeetingIds : Jobs("download", m)' <= 1
       /\ (\A r \in Runs : runs'[r].pc = "done") =>
              \A m \in calendar : store'[m].present /\ Jobs("download", m)' = 1]_vars

\* Both runs have completed, each has found a meeting absent and counted it
\* as new, and the other run's insert came after a worker had moved the
\* meeting on.
C36_Witness ==
    \E m \in MeetingIds :
        /\ \A r \in Runs : runs[r].pc = "done" /\ m \in runs[r].newMeetings
        /\ getMeeting(m).state \in {"DOWNLOADED", "FAILED"}
        /\ Jobs("download", m) = 1

-----------------------------------------------------------------------------
(* pathFor for the ids of two meetings *)

MaxPairIdLen == 2

\* Meeting ids that the file server's isValidMeetingId accepts, made of a
\* letter, an underscore and a hyphen.
PairIdArgs ==
    {id \in UNION {[1..n -> {"a", "_", "-"}] : n \in 1..MaxPairIdLen} : isValidMeetingId(id)}

\* Two jobs, for the meetings id1 and id2, ask for the path of their
\* artifact of the same kind.
CallPathForPair(type, id1, id2) ==
    /\ call = NoCall
    /\ call' = [fn |-> "pathFor, pathFor", arg |-> <<id1, id2>>,
                result |-> <<pathFor(type, id1), pathFor(type, id2)>>]
    /\ UNCHANGED <<pipelineVars, files, tmpUploads, reply, reqs>>

NextPair ==
    \E type \in StorageTypes, id1 \in PairIdArgs, id2 \in PairIdArgs :
        CallPathForPair(type, id1, id2)

SpecPair == Init /\ [][NextPair]_vars

\* C37: for every artifact kind, two different meeting ids have different
\* canonical paths.
C37_DifferentIdsDifferentPaths ==
    (call.fn = "pathFor, pathFor" /\ call.arg[1] # call.arg[2]) =>
        call.result[1] # call.result[2]

-----------------------------------------------------------------------------
(* Retries of a diarize job whose meeting is FAILED *)

\* The diarize job of meeting m has failed at least once and is waiting for,
\* or in, another attempt.
Retrying(m) == attemptsMade["diarize"][m] >= 1 /\ Live("diarize", m) = 1

\* C38: once an attempt of a diarize job has failed and the meeting is
\* FAILED, only the operator takes the meeting out of FAILED while the job
\* is retried, and a retry that finds the meeting FAILED fails at the phase
\* check without running the diarization tool and leaves the meeting FAILED.
C38_RetriesOfFailedDiarizeFail ==
    [][\A m \in MeetingIds :
          /\ (Retrying(m) /\ getMeeting(m).state = "FAILED" /\ store'[m].state # "FAILED") =>
                 \E s \in Phases : restartMeeting(m, s)
          /\ (/\ Retrying(m)
              /\ getMeeting(m).state = "FAILED"
              /\ \E ok \in BOOLEAN, audioOk \in BOOLEAN : Work("diarize", m, ok, audioOk)) =>
                 /\ pc'["diarize"][m] = "caught"
                 /\ caught'["diarize"][m] = NotUploaded
                 /\ artifacts' = artifacts
          /\ (Retrying(m) /\ MarkFailed("diarize", m)) => store'[m].state = "FAILED"]_vars

-----------------------------------------------------------------------------
(* Cleanup of old raw videos *)

\* const CLEANUP_AFTER_DAYS = parseInt(process.env.CLEANUP_AFTER_DAYS) || 30
CLEANUP_AFTER_DAYS == 30

\* NaN, the days since a date that new Date() cannot parse.
NaNDays == -1

\* The days since a meeting's date: younger than the limit, at the limit,
\* or not a number.
DaysSinceArgs == {29, 30, NaNDays}

\* const DRY_RUN = process.env.DRY_RUN === 'true': the constant is set when
\* the module is loaded, before main() runs; main's
\* `process.env.DRY_RUN = 'true'` for the flag --dry-run comes after it and
\* does not change the constant.
DRY_RUN(flagDryRun, envDryRun) == envDryRun

\* daysSince < CLEANUP_AFTER_DAYS, which is false for NaN
tooYoung(daysSince) == daysSince # NaNDays /\ daysSince < CLEANUP_AFTER_DAYS

\* The meetings whose raw video cleanupOldFiles unlinks: those read as
\* DIARIZED that are not skipped as too young and whose raw video exists,
\* none in a dry run.
unlinked(flagDryRun, envDryRun, daysSince) ==
    IF DRY_RUN(flagDryRun, envDryRun) THEN {}
    ELSE {m \in MeetingIds : /\ getMeeting(m).present
                             /\ getMeeting(m).state = "DIARIZED"
                             /\ ~tooYoung(daysSince[m])
                             /\ "raw_video" \in artifacts[m]}

\* node cleanup.js [--dry-run], with or without DRY_RUN=true in the
\* environment; daysSince gives, per meeting of the calendar, the days since
\* its date.
cleanupOldFiles(flagDryRun, envDryRun, daysSince) ==
    /\ artifacts' = [m \in MeetingIds |->
                        IF m \in unlinked(flagDryRun, envDryRun, daysSince)
                        THEN artifacts[m] \ {"raw_video"} ELSE artifacts[m]]
    /\ UNCHANGED <<fileVars, proc, tempDir, calendar, runs, store, published, queueVars,
                   pc, caught, killedAt, ops>>

\* Discovery, the workers, the operator's restarts and cleanup runs.
NextCleanup ==
    \/ NextAuto
    \/ \E m \in MeetingIds, s \in Phases : restartMeeting(m, s)
    \/ \E flagDryRun \in BOOLEAN, envDryRun \in BOOLEAN,
          daysSince \in [calendar -> DaysSinceArgs] :
           cleanupOldFiles(flagDryRun, envDryRun, daysSince)

SpecCleanup == Init /\ [][NextCleanup]_vars

\* C39: a cleanup run deletes only the raw video of meetings that are
\* DIARIZED and whose date is at least CLEANUP_AFTER_DAYS days old, deletes
\* nothing when a dry run is asked for, and changes neither the state store
\* nor a queue.
C39_CleanupDeletesOnlyOldRawVideos ==
    [][\A flagDryRun \in BOOLEAN, envDryRun \in BOOLEAN,
          daysSince \in [calendar -> DaysSinceArgs] :
          cleanupOldFiles(flagDryRun, envDryRun, daysSince) =>
              /\ store' = store
              /\ queueVars' = queueVars
              /\ (flagDryRun \/ envDryRun) => artifacts' = artifacts
              /\ \A m \in MeetingIds \ calendar : artifacts'[m] = artifacts[m]
              /\ \A m \in calendar :
                     artifacts'[m] # artifacts[m] =>
                         /\ artifacts[m] \ artifacts'[m] = {"raw_video"}
                         /\ artifacts'[m] \subseteq artifacts[m]
                         /\ getMeeting(m).state = "DIARIZED"
                         /\ daysSince[m] # NaNDays
                         /\ daysSince[m] >= CLEANUP_AFTER_DAYS]_vars

====
